---- MODULE Spec2Model ----
(***************************************************************************)
(* A model of the filesync server: the in-memory metadata store            *)
(* (memdb.MetadataStore), the upload and delete HTTP handlers, the         *)
(* deletion-event emitter channel, the janitor and the blob storage.       *)
(*                                                                         *)
(* Maps are functions whose DOMAIN is the set of keys present.  A nil      *)
(* *store.ObjectMetadata is the record NoObj.  CompletedAt is modelled by  *)
(* whether it is set; MTime and CreatedAt are carried through unchanged by *)
(* every operation and are left out of the records.                        *)
(***************************************************************************)
EXTENDS Integers, Sequences, FiniteSets, TLC

\* ------------------------------------------------------------------ bounds

\* Upload requests that get as far as drawing an object id.
MaxUploads == 3
\* Capacity of the emitter's data channel: make(chan *store.ObjectMetadata, 1).
ChanCap == 1

Handlers == {"h1", "h2"}
Keys == {"k1", "k2"}

\* Request bodies: the empty one and two of the same length.
Bodies == {<<>>, <<1>>, <<2>>}

\* The sizes and Content-Lengths a request can state; -1 is a chunked request.
Sizes == {Len(d) : d \in Bodies}
ContentLengths == Sizes \cup {-1}

\* No handler holds the store's mutex.
Unlocked == "none"

\* ----------------------------------------------------------------- records

NoObj == [Key |-> "", ObjectID |-> "", SHA256Checksum |-> "", Size |-> 0,
          CompletedAt |-> FALSE]

EmptyMap == [x \in {} |-> NoObj]

MapDelete(m, k) == [x \in DOMAIN m \ {k} |-> m[x]]

MapPut(m, k, v) == [x \in DOMAIN m \cup {k} |-> IF x = k THEN v ELSE m[x]]

\* hex(sha256(data)): collision-free on the bodies of the model; never "".
SHA256(data) == "sha256:" \o ToString(data)

\* Faulty variant of mustUUIDV7: an identifier that repeats.
mustUUIDV7Repeating(n) == "o" \o ToString(n % 2)

\* uuid.NewV7(): a fresh identifier for every call.
mustUUIDV7(n) == "o" \o ToString(n)

VARIABLES
  keyToObjectMetadata,   \* completed: key -> ObjectMetadata
  keyToInflightUploads,  \* inflight: key -> sequence of ObjectMetadata
  mu,                    \* the handler holding MetadataStore.mu, or Unlocked
  ch,                    \* the emitter's data channel (a FIFO of capacity ChanCap)
  blobs,                 \* blob storage: file name -> bytes
  h,                     \* per handler slot: the locals of the request served
  nextID,                \* object ids drawn so far
  janitor,               \* the event the janitor is cleaning up, or NoObj
  emitted,               \* history: events for which Emit returned nil, in order
  retired,               \* history: objects taken out of completed, in order
  received,              \* history: events the janitor received, in order
  deleteCalls,           \* history: names the janitor passed to DeleteObject
  gaveUp,                \* history: the janitor gave an event up after retrying
  returned,              \* the call that returned in the latest step, or NoReturn
  psData,                \* psurls: the URLData given to Generate
  psSecret,              \* psurls: the secret key given to Generate
  psNow,                 \* psurls: time.Now().UTC().Unix()
  psURL,                 \* psurls: the URL in the client's hands, or NoURL
  psAgain,               \* psurls: the URL of a second Generate call, or NoURL
  psTampered,            \* psurls: the name of the parameter changed in psURL, or ""
  psValidated,           \* psurls: the latest Validate call and what it returned
  walFile,               \* wal: the bytes of the file at the WAL's path
  closed,                \* wal: WAL.closed
  closeCalls,            \* wal: the number of Close calls made
  writeBuf,              \* wal: the bytes of WAL.writeBuf not yet in the file
  appended,              \* wal: history: the messages given to Append, in order
  readOff,               \* wal: the number of bytes WAL.reader has handed out
  bytesRead,             \* wal: WAL.bytesRead
  walMode,               \* wal: how the log is read: "Consume", "Next", or ""
  walPc,                 \* wal: the reader's position in next / Consume
  partialRead,           \* wal: the bytes next keeps from reads that hit EOF
  line,                  \* wal: the bytes ReadBytes returned, or the entry to send
  walCtx,                \* wal: the reader's context: "live" or "done"
  out,                   \* wal: history: the entries the caller received, in order
  walEnd,                \* wal: why the reader ended and what its caller saw
  index,                 \* index: Index.idx, path -> FileMetadata
  idxMu,                 \* index: the caller holding Index.mu, or Unlocked
  sinkMD,                \* index: the payload of the sink call in progress, or NoMD
  snapshot,              \* index: SnapshotAndPurge's clone, once made
  sunk,                  \* index: history: the payloads given to the sink, in order
  snapshots,             \* index: history: the results of SnapshotAndPurge, in order
  eClosed,               \* emitter: Emitter.closed
  eDone,                 \* emitter: Emitter.done has been closed
  chClosed,              \* emitter: Emitter.ch has been closed
  wg,                    \* emitter: Emitter.wg, its counter and its waiters
  emit,                  \* emitter: per caller, the Emit call it is in
  closer,                \* emitter: per caller, the Close call it is in
  emitCalls,             \* emitter: the number of Emit calls made
  ePanic,                \* emitter: the panic that ended the process, or ""
  localSnapshot,         \* planner: the local snapshot map Generate works on
  serverSnapshot,        \* planner: the server snapshot map, nil or not
  requests,              \* planner: the requests planned so far
  ranged,                \* planner: the keys the range loops have visited
  plannerPc,             \* planner: where Generate is
  localArg,              \* planner: the local snapshot as the caller passed it
  applied,               \* sync pipeline: per planned request applied, how its Apply ended
  tree,                  \* walker: the directory tree, path -> kind of entry
  rootDir,               \* walker: the directory Walk is called with
  todo,                  \* walker: the entries filepath.WalkDir has still to visit, in order
  watched,               \* walker: the directories handed to Watcher.Add, in order
  fileOps,               \* walker: the file ops appended to the WAL, in order
  walkPc,                \* walker: where Walk is
  authM,                 \* auth: Auth.m, access key id -> secret
  authMu,                \* auth: Auth.mu, its writer and its readers
  gen,                   \* auth: per caller, the GenerateAccessKey call it is in
  get,                   \* auth: per caller, the GetSecretKeyByID call it is in
  randReads,             \* auth: the number of access keys drawn from crypto/rand
  generated,             \* auth: the access keys GenerateAccessKey has returned
  watcherStageNum,       \* watcher: Watcher.stageNum
  watching,              \* watcher: the event Start is handling and the stage number it loaded
  walking,               \* watcher: per Walk call, where it is
  stageLog,              \* watcher: history: the records appended to the WAL, in order
  clock,                 \* baseline: time.Now().UTC()
  queued,                \* baseline: the FileOps in the WAL and the pipeline, not yet at the sink
  storedBy,              \* baseline: history: who emitted the entry stored for a path
  emittedBy,             \* baseline: history: the paths the walker and the watcher emitted ops for
  source,                \* index pipeline: the WAL records stage 1 has not read yet
  taken,                 \* index pipeline: history: the records stage 1 has read, in order
  pipelineErr            \* index pipeline: the error the pipeline ended with, or ""

serverVars == <<keyToObjectMetadata, keyToInflightUploads, mu, ch, blobs, h, nextID,
                janitor, emitted, retired, received, deleteCalls, gaveUp, returned>>
psurlsVars == <<psData, psSecret, psNow, psURL, psAgain, psTampered, psValidated>>
walVars == <<walFile, closed, closeCalls, writeBuf, appended, readOff, bytesRead, walMode,
             walPc, partialRead, line, walCtx, out, walEnd>>
indexVars == <<index, idxMu, sinkMD, snapshot, sunk, snapshots>>
emitterVars == <<eClosed, eDone, chClosed, wg, emit, closer, emitCalls, ePanic>>
plannerVars == <<localSnapshot, serverSnapshot, requests, ranged, plannerPc, localArg>>
syncVars == <<applied>>
walkerVars == <<tree, rootDir, todo, watched, fileOps, walkPc>>
authVars == <<authM, authMu, gen, get, randReads, generated>>
watcherVars == <<watcherStageNum, watching, walking, stageLog>>
baselineVars == <<clock, queued, storedBy, emittedBy>>
pipelineVars == <<source, taken, pipelineErr>>
libVars == <<psurlsVars, walVars, indexVars, emitterVars, plannerVars, syncVars, walkerVars, authVars, watcherVars, baselineVars, pipelineVars>>
notPsurlsVars == <<serverVars, walVars, indexVars, emitterVars, plannerVars, syncVars, walkerVars, authVars, watcherVars, baselineVars, pipelineVars>>
notWalVars == <<serverVars, psurlsVars, indexVars, emitterVars, plannerVars, syncVars, walkerVars, authVars, watcherVars, baselineVars, pipelineVars>>
notIndexVars == <<serverVars, psurlsVars, walVars, emitterVars, plannerVars, syncVars, walkerVars, authVars, watcherVars, baselineVars, pipelineVars>>
notEmitterVars == <<serverVars, psurlsVars, walVars, indexVars, plannerVars, syncVars, walkerVars, authVars, watcherVars, baselineVars, pipelineVars>>
notChVars == <<keyToObjectMetadata, keyToInflightUploads, mu, blobs, h, nextID,
               janitor, emitted, retired, received, deleteCalls, gaveUp, returned>>
notEmitterChVars == <<notChVars, psurlsVars, walVars, indexVars, plannerVars, syncVars, walkerVars, authVars, watcherVars, baselineVars, pipelineVars>>
notPlannerVars == <<serverVars, psurlsVars, walVars, indexVars, emitterVars, syncVars, walkerVars, authVars, watcherVars, baselineVars, pipelineVars>>
notSyncVars == <<serverVars, psurlsVars, walVars, indexVars, emitterVars, plannerVars, walkerVars, authVars, watcherVars, baselineVars, pipelineVars>>
notServerSyncVars == <<psurlsVars, walVars, indexVars, emitterVars, plannerVars, walkerVars, authVars, watcherVars, baselineVars, pipelineVars>>
notWalkerVars == <<serverVars, psurlsVars, walVars, indexVars, emitterVars, plannerVars, syncVars, authVars, watcherVars, baselineVars, pipelineVars>>
notAuthVars == <<serverVars, psurlsVars, walVars, indexVars, emitterVars, plannerVars, syncVars, walkerVars, watcherVars, baselineVars, pipelineVars>>
notWatcherVars == <<serverVars, psurlsVars, walVars, indexVars, emitterVars, plannerVars, syncVars, walkerVars, authVars, baselineVars, pipelineVars>>
notBaselineVars == <<serverVars, psurlsVars, walVars, indexVars, emitterVars, plannerVars, syncVars, walkerVars, authVars, watcherVars, pipelineVars>>
notBaselineIndexVars == <<serverVars, psurlsVars, walVars, emitterVars, plannerVars, syncVars, walkerVars, authVars, watcherVars, pipelineVars>>
notPipelineVars == <<serverVars, psurlsVars, walVars, indexVars, emitterVars, plannerVars, syncVars, walkerVars, authVars, watcherVars, baselineVars>>
notPipelineBaselineVars == <<serverVars, psurlsVars, walVars, indexVars, emitterVars, plannerVars, syncVars, walkerVars, authVars, watcherVars>>
vars == <<serverVars, libVars>>

storeVars == <<keyToObjectMetadata, keyToInflightUploads>>
histVars == <<emitted, retired>>
janitorVars == <<janitor, received, deleteCalls, gaveUp>>

\* A handler slot that serves no request.
Idle == [pc |-> "idle", kind |-> "none", key |-> "", objectID |-> "",
         sha |-> "", size |-> 0, data |-> <<>>, readErr |-> FALSE,
         clMismatch |-> FALSE, putErr |-> FALSE, existing |-> NoObj,
         emits |-> <<>>, result |-> "", statuses |-> <<>>]

\* What a returning handler leaves to observe: the request (kind, key, object
\* id), how it ended, every status line it wrote in order, the completed object
\* of the key right before the call took effect (pre), the events the call
\* emitted, and for a snapshot the map it returned.
NoReturn == [kind |-> "none", key |-> "", objectID |-> "", result |-> "",
             statuses |-> <<>>, pre |-> NoObj, emits |-> <<>>,
             snapshot |-> EmptyMap]

\* ------------------------------------------------- memdb.MetadataStore

\* Faulty variant of Snapshot: keys with an upload in flight are left out.
SnapshotHidingReplaced(completed) ==
  [k \in DOMAIN completed \ DOMAIN keyToInflightUploads |-> completed[k]]

\* Snapshot: a by-value copy of the completed map.
Snapshot(completed) == [k \in DOMAIN completed |-> completed[k]]

\* Create's validation: the error it returns, or "" for nil.
CreateErr(md) ==
  IF md.Key = "" THEN "key is required"
  ELSE IF md.ObjectID = "" THEN "object ID is required"
  ELSE ""

\* Create: append a copy of md (CompletedAt unset) to the key's in-flight list.
Create(inflight, md) ==
  LET old == IF md.Key \in DOMAIN inflight THEN inflight[md.Key] ELSE <<>>
      copy == [Key |-> md.Key, ObjectID |-> md.ObjectID,
               SHA256Checksum |-> md.SHA256Checksum, Size |-> md.Size,
               CompletedAt |-> FALSE]
  IN MapPut(inflight, md.Key, Append(old, copy))

\* Faulty variant of FindInflight: the first in-flight upload of the key is
\* taken, whatever its object id.
FindInflightFirst(list, objectID) == IF Len(list) > 0 THEN list[1] ELSE NoObj

\* The loop of PutObjectCompleted: the first in-flight entry with the id, or nil.
FindInflight(list, objectID) ==
  LET idx == {i \in 1..Len(list) : list[i].ObjectID = objectID}
  IN IF idx = {} THEN NoObj
     ELSE list[CHOOSE i \in idx : \A j \in idx : i <= j]

\* Faulty variant of DeleteFunc: the oldest entry is dropped, whichever it is.
DeleteFuncOldest(list, objectID) == Tail(list)

\* slices.DeleteFunc(inflightObjects, obj.ObjectID == objectID)
DeleteFunc(list, objectID) ==
  SelectSeq(list, LAMBDA obj : obj.ObjectID # objectID)

\* PutObjectCompleted, lines 128-130: stamp CompletedAt and make the entry the
\* key's completed object.
Promote(completed, key, object) ==
  MapPut(completed, key, [object EXCEPT !.CompletedAt = TRUE])

\* Faulty variant of RemoveInflight: the in-flight list is left as it was.
RemoveInflightForgotten(inflight, key, objectID) == inflight

\* PutObjectCompleted, lines 132-139: drop the entry from the in-flight list and
\* drop the key when the list is empty.
RemoveInflight(inflight, key, objectID) ==
  LET rest == DeleteFunc(inflight[key], objectID)
  IN IF Len(rest) = 0 THEN MapDelete(inflight, key)
     ELSE MapPut(inflight, key, rest)

\* Faulty variant of DeleteCompleted: the entry is left in place.
DeleteCompletedForgotten(completed, key) == completed

\* Delete, line 93.
DeleteCompleted(completed, key) == MapDelete(completed, key)

\* Faulty variant of CanLock: the lock is shared, as RLock would be.
CanLockShared(t) == TRUE

\* MetadataStore.mu.Lock() succeeds for handler t.
CanLock(t) == mu = Unlocked

\* The key's completed object, or nil.
Completed(key) ==
  IF key \in DOMAIN keyToObjectMetadata THEN keyToObjectMetadata[key] ELSE NoObj

\* --------------------------------------------------------------- handlers

Free(t) == h[t].pc = "idle"

\* Handler t returns and its slot is free again.
Returns(t, result, statuses, pre) ==
  /\ h' = [h EXCEPT ![t] = Idle]
  /\ returned' = [NoReturn EXCEPT !.kind = h[t].kind, !.key = h[t].key,
                                  !.objectID = h[t].objectID, !.result = result,
                                  !.statuses = statuses, !.pre = pre,
                                  !.emits = h[t].emits]

\* A handler that returns in the step that starts it.
ReturnsAtOnce(kind, key, result, statuses) ==
  /\ UNCHANGED h
  /\ returned' = [NoReturn EXCEPT !.kind = kind, !.key = key, !.result = result,
                                  !.statuses = statuses]

\* Handler t goes on with locals s.
Continues(t, s) ==
  /\ h' = [h EXCEPT ![t] = s]
  /\ returned' = NoReturn

\* What GetSecretKeyByID and psurls.Validate make of a request's query that is
\* turned away: the access key id is unknown, or Validate returns an error.
AuthOutcomes ==
  {"unknown_aki", "invalid or missing expiry", "ErrURLExpired", "missing signature",
   "invalid signature encoding", "ErrSignatureMismatch", "invalid or missing size",
   "invalid or missing mtime"}

\* Faulty variant of AuthStatus: every rejection is a 400.
AuthStatusBadRequest(auth) == 400

\* UploadFile, lines 61-75: the status written for each of them.
AuthStatus(auth) ==
  IF auth = "unknown_aki" THEN 401
  ELSE IF auth \in {"ErrURLExpired", "ErrSignatureMismatch"} THEN 403
  ELSE 400

\* The body as the server reads it: with a Content-Length the reader yields at
\* most that many bytes and fails when the client sends fewer; cl = -1 is a
\* chunked request.
UploadRequests ==
  {r \in [key : Keys \cup {""}, sha : {SHA256(d) : d \in Bodies} \cup {""},
          size : Sizes, cl : ContentLengths, data : Bodies,
          readErr : BOOLEAN] :
     /\ r.cl >= 0 => Len(r.data) <= r.cl
     /\ (r.cl >= 0 /\ Len(r.data) < r.cl) => r.readErr
     /\ (r.cl >= 0 /\ Len(r.data) = r.cl) => ~r.readErr}

\* The requests of a client that signs what it sends: a non-empty key, the
\* body's checksum and size, and a Content-Length equal to the size.
HonestRequests ==
  {r \in UploadRequests :
     /\ r.key # ""
     /\ r.sha = SHA256(r.data)
     /\ r.size = Len(r.data)
     /\ r.cl = r.size}

\* UploadFile, lines 59-76: the request is turned away before the store is used.
UploadFileRejected(t, auth) ==
  /\ Free(t)
  /\ ReturnsAtOnce("upload", "", auth, <<AuthStatus(auth)>>)
  /\ UNCHANGED <<storeVars, mu, ch, blobs, nextID, janitorVars, histVars, libVars>>

\* UploadFile, lines 78-103: the Content-Length check (which writes 400 and goes
\* on), a fresh object id, and Create.
UploadFileCreate(t, r) ==
  /\ Free(t)
  /\ nextID < MaxUploads
  /\ CanLock(t)
  /\ LET objectID == mustUUIDV7(nextID + 1)
         md == [Key |-> r.key, ObjectID |-> objectID,
                SHA256Checksum |-> r.sha, Size |-> r.size, CompletedAt |-> FALSE]
         st == IF r.cl # r.size THEN <<400>> ELSE <<>>
     IN /\ nextID' = nextID + 1
        /\ IF CreateErr(md) # ""
           THEN /\ ReturnsAtOnce("upload", r.key, "create_err", st \o <<500>>)
                /\ UNCHANGED keyToInflightUploads
           ELSE /\ Continues(t, [Idle EXCEPT !.pc = "putobject", !.kind = "upload",
                                             !.key = r.key, !.objectID = objectID,
                                             !.sha = r.sha, !.size = r.size,
                                             !.clMismatch = (r.cl # r.size),
                                             !.data = r.data, !.readErr = r.readErr,
                                             !.statuses = st])
                /\ keyToInflightUploads' = Create(keyToInflightUploads, md)
  /\ UNCHANGED <<keyToObjectMetadata, mu, ch, blobs, janitorVars, histVars, libVars>>

\* FileSystem.PutObject: the file is created under objectID, then the body is
\* streamed into it; an error returns ("", 0, err).
PutObjectResult(data, createOK, readErr) ==
  IF createOK /\ ~readErr
  THEN [checksum |-> SHA256(data), written |-> Len(data), err |-> FALSE]
  ELSE [checksum |-> "", written |-> 0, err |-> TRUE]

\* UploadFile, lines 105-123: PutObject (a failure writes 500 and goes on), then
\* the checksum and size checks.
UploadFilePutObject(t, createOK) ==
  /\ h[t].pc = "putobject"
  /\ LET s == h[t]
         res == PutObjectResult(s.data, createOK, s.readErr)
         st == s.statuses \o (IF res.err THEN <<500>> ELSE <<>>)
     IN /\ blobs' = IF createOK THEN MapPut(blobs, s.objectID, s.data) ELSE blobs
        /\ IF s.sha # res.checksum
           THEN Returns(t, "checksum_mismatch", st \o <<400>>, NoObj)
           ELSE IF s.size # res.written
           THEN Returns(t, "size_mismatch", st \o <<400>>, NoObj)
           ELSE Continues(t, [s EXCEPT !.pc = "commit", !.statuses = st,
                                       !.putErr = res.err,
                                       !.data = <<>>, !.readErr = FALSE])
  /\ UNCHANGED <<storeVars, mu, ch, nextID, janitorVars, histVars, libVars>>

\* PutObjectCompleted, lines 128-141, and the handler's lines 125-132 after a nil
\* return: promote the in-flight entry, unlock, respond 201.
PutObjectCompletedApply(t) ==
  LET s == h[t]
      object == FindInflight(keyToInflightUploads[s.key], s.objectID)
      pre == Completed(s.key)
  IN /\ keyToObjectMetadata' = Promote(keyToObjectMetadata, s.key, object)
     /\ keyToInflightUploads' = RemoveInflight(keyToInflightUploads, s.key, s.objectID)
     /\ retired' = IF pre = NoObj THEN retired ELSE Append(retired, pre)
     /\ mu' = Unlocked
     /\ Returns(t, "ok", s.statuses \o <<201>>, pre)

\* UploadFile, line 125, and PutObjectCompleted, lines 100-126: lock, look the
\* upload up, and either fail with NotFound (the handler writes 500 and then
\* 201), or commit at once when the key has no completed object, or call Emit
\* with the existing object while holding the lock.
PutObjectCompletedBegin(t) ==
  /\ h[t].pc = "commit"
  /\ CanLock(t)
  /\ LET s == h[t]
     IN IF \/ s.key \notin DOMAIN keyToInflightUploads
           \/ FindInflight(keyToInflightUploads[s.key], s.objectID) = NoObj
        THEN /\ Returns(t, "not_found", s.statuses \o <<500, 201>>, Completed(s.key))
             /\ UNCHANGED <<storeVars, mu, retired>>
        ELSE IF s.key \in DOMAIN keyToObjectMetadata
        THEN /\ Continues(t, [s EXCEPT !.pc = "emit",
                                       !.existing = keyToObjectMetadata[s.key]])
             /\ mu' = t
             /\ UNCHANGED <<storeVars, retired>>
        ELSE PutObjectCompletedApply(t)
  /\ UNCHANGED <<ch, blobs, nextID, janitorVars, emitted, libVars>>

\* Emitter.Emit's select for the handler blocked in it: the object goes onto the
\* data channel when there is room, or the request's context is done and Emit
\* returns its error.  With both ready the select takes either.
Emit(t, ctxDone) ==
  /\ h[t].pc = "emit"
  /\ IF ctxDone
     THEN /\ Continues(t, [h[t] EXCEPT !.pc = "emitted", !.result = "emit_err"])
          /\ UNCHANGED <<ch, emitted>>
     ELSE /\ Len(ch) < ChanCap
          /\ ch' = Append(ch, h[t].existing)
          /\ emitted' = Append(emitted, h[t].existing)
          /\ Continues(t, [h[t] EXCEPT !.pc = "emitted", !.result = "emit_ok",
                                       !.emits = Append(@, h[t].existing)])
  /\ UNCHANGED <<storeVars, mu, blobs, nextID, janitorVars, retired, libVars>>

\* Faulty variant of PutObjectCompletedEnd: the upload is promoted before the emitter's
\* answer is looked at.
PutObjectCompletedEndPromotesFirst(t) ==
  /\ h[t].pc = "emitted"
  /\ h[t].kind = "upload"
  /\ IF h[t].result = "emit_err"
     THEN /\ keyToObjectMetadata' =
               Promote(keyToObjectMetadata, h[t].key,
                       FindInflight(keyToInflightUploads[h[t].key], h[t].objectID))
          /\ keyToInflightUploads' =
               RemoveInflight(keyToInflightUploads, h[t].key, h[t].objectID)
          /\ Returns(t, "emit_err", h[t].statuses \o <<500, 201>>, Completed(h[t].key))
          /\ mu' = Unlocked
          /\ UNCHANGED retired
     ELSE PutObjectCompletedApply(t)
  /\ UNCHANGED <<ch, blobs, nextID, janitorVars, emitted, libVars>>

\* PutObjectCompleted, lines 122-141, after Emit returned: on an error return it
\* without touching the store (the handler writes 500 and then 201), else
\* promote.
PutObjectCompletedEnd(t) ==
  /\ h[t].pc = "emitted"
  /\ h[t].kind = "upload"
  /\ IF h[t].result = "emit_err"
     THEN /\ Returns(t, "emit_err", h[t].statuses \o <<500, 201>>, Completed(h[t].key))
          /\ mu' = Unlocked
          /\ UNCHANGED <<storeVars, retired>>
     ELSE PutObjectCompletedApply(t)
  /\ UNCHANGED <<ch, blobs, nextID, janitorVars, emitted, libVars>>

\* FileServer.DeleteFile with MetadataStore.Delete, lines 79-88: an empty key is
\* a 400; a key with no completed object is a 200 with nothing done; else Emit
\* is called with the completed object while the lock is held.
DeleteFileBegin(t, key) ==
  /\ Free(t)
  /\ IF key = ""
     THEN /\ ReturnsAtOnce("delete", key, "bad_request", <<400>>)
          /\ UNCHANGED mu
     ELSE /\ CanLock(t)
          /\ IF key \notin DOMAIN keyToObjectMetadata
             THEN /\ ReturnsAtOnce("delete", key, "ok", <<200>>)
                  /\ UNCHANGED mu
             ELSE /\ Continues(t, [Idle EXCEPT !.pc = "emit", !.kind = "delete",
                                               !.key = key,
                                               !.existing = keyToObjectMetadata[key]])
                  /\ mu' = t
  /\ UNCHANGED <<storeVars, ch, blobs, nextID, janitorVars, histVars, libVars>>

\* Faulty variant of DeleteFileEnd: a successful Delete also cancels the key's in-flight
\* uploads.
DeleteFileEndCancelling(t) ==
  /\ h[t].pc = "emitted"
  /\ h[t].kind = "delete"
  /\ IF h[t].result = "emit_err"
     THEN /\ Returns(t, "emit_err", <<500>>, Completed(h[t].key))
          /\ UNCHANGED <<storeVars, retired>>
     ELSE /\ keyToObjectMetadata' = DeleteCompleted(keyToObjectMetadata, h[t].key)
          /\ keyToInflightUploads' = MapDelete(keyToInflightUploads, h[t].key)
          /\ retired' = IF Completed(h[t].key) = NoObj THEN retired
                        ELSE Append(retired, Completed(h[t].key))
          /\ Returns(t, "ok", <<200>>, Completed(h[t].key))
  /\ mu' = Unlocked
  /\ UNCHANGED <<ch, blobs, nextID, janitorVars, emitted, libVars>>

\* MetadataStore.Delete, lines 88-95, after Emit returned: on an error return it
\* (500), else remove the key's completed object (200).
DeleteFileEnd(t) ==
  /\ h[t].pc = "emitted"
  /\ h[t].kind = "delete"
  /\ IF h[t].result = "emit_err"
     THEN /\ Returns(t, "emit_err", <<500>>, Completed(h[t].key))
          /\ UNCHANGED <<keyToObjectMetadata, retired>>
     ELSE /\ keyToObjectMetadata' = DeleteCompleted(keyToObjectMetadata, h[t].key)
          /\ retired' = IF Completed(h[t].key) = NoObj THEN retired
                        ELSE Append(retired, Completed(h[t].key))
          /\ Returns(t, "ok", <<200>>, Completed(h[t].key))
  /\ mu' = Unlocked
  /\ UNCHANGED <<keyToInflightUploads, ch, blobs, nextID, janitorVars, emitted, libVars>>

\* FileServer.Snapshot with MetadataStore.Snapshot.
SnapshotCall ==
  /\ mu = Unlocked
  /\ returned' = [NoReturn EXCEPT !.kind = "snapshot", !.result = "ok",
                                  !.statuses = <<200>>,
                                  !.snapshot = Snapshot(keyToObjectMetadata)]
  /\ UNCHANGED <<storeVars, mu, ch, blobs, h, nextID, janitorVars, histVars, libVars>>

\* ---------------------------------------------------------------- janitor

\* The name Janitor.cleanup hands to DeleteObject for an event.
CleanupName(md) == md.Key

\* FileSystem.DeleteObject: remove the file of that name; a missing file is no
\* error.
DeleteObject(files, name) == MapDelete(files, name)

\* dir.Remove can fail with an error other than "not exist" only for a file that
\* is there.
DeleteObjectCanFail(files, name) == name \in DOMAIN files

\* Faulty variant of JanitorReceive: the janitor takes the store's lock before it
\* receives.
JanitorReceiveLocking ==
  /\ mu = Unlocked
  /\ janitor = NoObj
  /\ Len(ch) > 0
  /\ janitor' = Head(ch)
  /\ ch' = Tail(ch)
  /\ received' = Append(received, Head(ch))
  /\ returned' = NoReturn
  /\ UNCHANGED <<storeVars, mu, blobs, h, nextID, histVars, deleteCalls, gaveUp, libVars>>

\* Janitor.Run: receive the next event from the emitter's channel.
JanitorReceive ==
  /\ janitor = NoObj
  /\ Len(ch) > 0
  /\ janitor' = Head(ch)
  /\ ch' = Tail(ch)
  /\ received' = Append(received, Head(ch))
  /\ returned' = NoReturn
  /\ UNCHANGED <<storeVars, mu, blobs, h, nextID, histVars, deleteCalls, gaveUp, libVars>>

\* Janitor.cleanup: DeleteObject under backoff.Retry; it either succeeds on some
\* attempt or every attempt fails and the janitor gives the event up.
JanitorCleanup(ok) ==
  /\ janitor # NoObj
  /\ ok \/ DeleteObjectCanFail(blobs, CleanupName(janitor))
  /\ deleteCalls' = Append(deleteCalls, CleanupName(janitor))
  /\ blobs' = IF ok THEN DeleteObject(blobs, CleanupName(janitor)) ELSE blobs
  /\ gaveUp' = (gaveUp \/ ~ok)
  /\ janitor' = NoObj
  /\ returned' = NoReturn
  /\ UNCHANGED <<storeVars, mu, ch, h, nextID, histVars, received, libVars>>

\* ------------------------------------------------------------ specification

\* The uploads of the server model: honest requests, two bodies for the first
\* key and one for the others.
ServerRequests ==
  {r \in HonestRequests : r.data = <<1>> \/ (r.key = "k1" /\ r.data = <<2>>)}

ServerInit ==
  /\ keyToObjectMetadata = EmptyMap
  /\ keyToInflightUploads = EmptyMap
  /\ mu = Unlocked
  /\ ch = <<>>
  /\ blobs = EmptyMap
  /\ h = [t \in Handlers |-> Idle]
  /\ nextID = 0
  /\ janitor = NoObj
  /\ emitted = <<>>
  /\ retired = <<>>
  /\ received = <<>>
  /\ deleteCalls = <<>>
  /\ gaveUp = FALSE
  /\ returned = NoReturn

\* The presigned-URL codec before any call.
NoURLData == [ObjectKey |-> "", SHA256Checksum |-> "", Size |-> 0, MTime |-> 0,
              Expiry |-> 0, AccessKeyID |-> ""]
NoURL == [base |-> "", query |-> <<>>, order |-> <<>>]
NoValidation == [secret |-> "", err |-> "none", data |-> NoURLData]

\* WAL.closed takes these values (wal.go, the const block).
openFlag == 0
writerClosedFlag == 1
readerWriterClosedFlag == 2

\* The reader has not ended.
NotEnded == [err |-> "none", signal |-> "none"]

\* wal.New: the file is opened (here: created empty) for appending and for
\* reading, nothing is buffered, closed holds its zero value.
New ==
  /\ walFile = <<>>
  /\ closed = openFlag
  /\ closeCalls = 0
  /\ writeBuf = <<>>
  /\ appended = <<>>
  /\ readOff = 0
  /\ bytesRead = 0
  /\ walMode = ""
  /\ walPc = "idle"
  /\ partialRead = <<>>
  /\ line = <<>>
  /\ walCtx = "live"
  /\ out = <<>>
  /\ walEnd = NotEnded

\* No FileMetadata.
NoMD == [Path |-> "", Size |-> 0, SHA256 |-> "", MTime |-> 0, Op |-> "", Timestamp |-> 0]

\* index.New: an empty map; no call in progress.
NewIndex ==
  /\ index = [x \in {} |-> NoMD]
  /\ idxMu = Unlocked
  /\ sinkMD = NoMD
  /\ snapshot = NoMD
  /\ sunk = <<>>
  /\ snapshots = <<>>

\* An Emit caller that is not in a call.
NoEmit == [pc |-> "idle", late |-> FALSE, ctxDone |-> FALSE, result |-> ""]

EmitCallers == {"e1", "e2"}
CloseCallers == {"c1", "c2"}

\* emitter.New: both channels open, nothing waited for, no call in progress.
\* (The data channel itself is ch.)
NewEmitter ==
  /\ eClosed = FALSE
  /\ eDone = FALSE
  /\ chClosed = FALSE
  /\ wg = [v |-> 0, w |-> 0]
  /\ emit = [e \in EmitCallers |-> NoEmit]
  /\ closer = [c \in CloseCallers |-> "idle"]
  /\ emitCalls = 0
  /\ ePanic = ""

\* A nil map.
NilMap == [nil |-> TRUE, m |-> EmptyMap]

\* The planner before Generate is called.
NewPlanner ==
  /\ localSnapshot = EmptyMap
  /\ serverSnapshot = NilMap
  /\ requests = <<>>
  /\ ranged = {}
  /\ plannerPc = "idle"
  /\ localArg = EmptyMap

\* The sync pipeline before a plan is applied.
NewSyncer == applied = EmptyMap

\* The walker before Walk is called.
NewWalker ==
  /\ tree = EmptyMap
  /\ rootDir = ""
  /\ todo = <<>>
  /\ watched = <<>>
  /\ fileOps = <<>>
  /\ walkPc = "idle"

\* The Walk calls, and the watcher's goroutine between two events.
Walkers == {"w1", "w2"}
NotWatching == [pc |-> "select", stageNum |-> 0, walksDone |-> 0, path |-> <<>>, events |-> <<>>]

\* watch.New, before Start and Walk are called: stageNum is the zero value.
NewWatcher ==
  /\ watcherStageNum = 0
  /\ watching = NotWatching
  /\ walking = [w \in Walkers |-> "idle"]
  /\ stageLog = <<>>

\* The client at its start: the clock has a positive time, nothing emitted.
NewBaseline ==
  /\ clock = 1
  /\ queued = {}
  /\ storedBy = EmptyMap
  /\ emittedBy = {}

\* The index pipeline before its first record.
NewPipeline ==
  /\ source = <<>>
  /\ taken = <<>>
  /\ pipelineErr = ""

\* The callers of the key store and a caller with no call in progress.
Generators == {"g1", "g2"}
Getters == {"r1", "r2"}
NoGen == [pc |-> "idle", id |-> "", secret |-> ""]
NoGet == [pc |-> "idle", keyID |-> "", known |-> {}, secret |-> "", ok |-> FALSE]

\* auth.New().
NewAuth ==
  /\ authM = EmptyMap
  /\ authMu = [writer |-> "", readers |-> {}]
  /\ gen = [g \in Generators |-> NoGen]
  /\ get = [r \in Getters |-> NoGet]
  /\ randReads = 0
  /\ generated = {}

\* The client's packages after construction.
ClientInit == NewIndex

PsurlsIdle ==
  /\ psData = NoURLData
  /\ psSecret = ""
  /\ psNow = 0
  /\ psURL = NoURL
  /\ psAgain = NoURL
  /\ psTampered = ""
  /\ psValidated = NoValidation

Init == ServerInit /\ PsurlsIdle /\ New /\ ClientInit /\ NewEmitter /\ NewPlanner /\ NewSyncer /\ NewWalker /\ NewAuth /\ NewWatcher /\ NewBaseline /\ NewPipeline

Next ==
  \/ \E t \in Handlers, r \in ServerRequests : UploadFileCreate(t, r)
  \/ \E t \in Handlers, createOK \in BOOLEAN : UploadFilePutObject(t, createOK)
  \/ \E t \in Handlers : PutObjectCompletedBegin(t)
  \/ \E t \in Handlers, ctxDone \in BOOLEAN : Emit(t, ctxDone)
  \/ \E t \in Handlers : PutObjectCompletedEnd(t)
  \/ \E t \in Handlers, key \in Keys : DeleteFileBegin(t, key)
  \/ \E t \in Handlers : DeleteFileEnd(t)
  \/ SnapshotCall
  \/ JanitorReceive
  \/ \E ok \in BOOLEAN : JanitorCleanup(ok)

Spec == Init /\ [][Next]_vars

\* ------------------------------------------------------------------ claims

\* The key's in-flight list in map inflight; empty when the key is absent.
InflightOf(inflight, key) ==
  IF key \in DOMAIN inflight THEN inflight[key] ELSE <<>>

\* The object ids in a sequence of records.
IDs(list) == {list[i].ObjectID : i \in 1..Len(list)}

\* The key's completed object in map completed, or nil.
CompletedOf(completed, key) ==
  IF key \in DOMAIN completed THEN completed[key] ELSE NoObj

\* The number n of the upload that drew the object id.
IDNum(objectID) == CHOOSE n \in 1..MaxUploads : mustUUIDV7(n) = objectID

UploadReturned(result) == returned.kind = "upload" /\ returned.result = result
DeleteReturned(result) == returned.kind = "delete" /\ returned.result = result

\* C1: when PutObjectCompleted(k, o) has returned nil, o is the completed object
\* of k and is in no entry of inflight[k]; the call emitted exactly one event,
\* carrying the completed object p that k had right before the call, or no
\* event when k had none.
C1_PutObjectCompletedPost ==
  UploadReturned("ok") =>
    /\ Completed(returned.key).ObjectID = returned.objectID
    /\ returned.objectID \notin IDs(InflightOf(keyToInflightUploads, returned.key))
    /\ returned.emits = IF returned.pre = NoObj THEN <<>> ELSE <<returned.pre>>

\* A completion that replaced a completed object has just returned.
C1_Witness == UploadReturned("ok") /\ returned.pre # NoObj

\* C2 (state part): a snapshot is the completed map as it is, every record in it
\* has CompletedAt set and none of them is an in-flight record.
C2_SnapshotShowsCompleted ==
  returned.kind = "snapshot" =>
    /\ returned.snapshot = keyToObjectMetadata
    /\ \A k \in DOMAIN returned.snapshot :
         /\ returned.snapshot[k].CompletedAt
         /\ \A k2 \in DOMAIN keyToInflightUploads :
              returned.snapshot[k].ObjectID \notin IDs(keyToInflightUploads[k2])

\* C2 (step part): the completed object of a key changes only in a step in which
\* a PutObjectCompleted or a Delete for that key returns nil; in particular
\* Create, which lengthens an in-flight list, leaves completed as it is.
C2_CompletedChangesOnlyOnCommit ==
  \A k \in Keys :
    CompletedOf(keyToObjectMetadata', k) # CompletedOf(keyToObjectMetadata, k) =>
      /\ returned'.kind \in {"upload", "delete"}
      /\ returned'.result = "ok"
      /\ returned'.key = k

\* C2: while uploads are in flight for a key its completed object stays the one
\* readers see: Create never changes completed, Snapshot returns the completed
\* map and nothing in flight, and only a successful PutObjectCompleted or Delete
\* for the key changes the key's entry.
C2_CompletedStaysVisible ==
  /\ []C2_SnapshotShowsCompleted
  /\ [][C2_CompletedChangesOnlyOnCommit]_vars

\* A snapshot shows the completed object of a key that has uploads in flight.
C2_Witness ==
  /\ returned.kind = "snapshot"
  /\ \E k \in DOMAIN keyToInflightUploads : k \in DOMAIN returned.snapshot

\* Every record of the store: the in-flight lists one after the other, then the
\* completed objects.
RECURSIVE Flatten(_)
Flatten(keys) ==
  IF keys = {} THEN <<>>
  ELSE LET k == CHOOSE x \in keys : TRUE
       IN (IF k \in DOMAIN keyToInflightUploads THEN keyToInflightUploads[k] ELSE <<>>)
          \o (IF k \in DOMAIN keyToObjectMetadata THEN <<keyToObjectMetadata[k]>> ELSE <<>>)
          \o Flatten(keys \ {k})

AllRecords == Flatten(DOMAIN keyToInflightUploads \cup DOMAIN keyToObjectMetadata)

\* C3: no object id occurs twice across all in-flight lists and all completed
\* objects.
C3_ObjectIDsUnique ==
  \A i, j \in 1..Len(AllRecords) :
    AllRecords[i].ObjectID = AllRecords[j].ObjectID => i = j

\* Two uploads in flight for one key beside a completed object.
C3_Witness ==
  /\ Len(AllRecords) >= 3
  /\ \E k \in DOMAIN keyToInflightUploads : Len(keyToInflightUploads[k]) >= 2
  /\ DOMAIN keyToObjectMetadata # {}

\* C4 (state part): a Delete(k) that has returned nil leaves k without a completed
\* object and emitted exactly the object k had, or nothing when k had none.
C4_DeletePost ==
  DeleteReturned("ok") =>
    /\ returned.key \notin DOMAIN keyToObjectMetadata
    /\ returned.emits = IF returned.pre = NoObj THEN <<>> ELSE <<returned.pre>>

\* C4 (step part): a Delete(k) on a key that has no completed object returns nil,
\* changes nothing in the store and hands nothing to the emitter.
C4_SecondDeleteIsNoOp ==
  (returned'.kind = "delete" /\ returned'.pre = NoObj /\ returned'.key # "") =>
    /\ returned'.result = "ok"
    /\ returned'.emits = <<>>
    /\ UNCHANGED <<storeVars, ch, emitted, retired>>

\* C4: Delete is idempotent: the first Delete(k) that returns nil emits the
\* key's completed object once and removes it, and a Delete(k) after it, with no
\* completion for k in between, returns nil, changes nothing and emits nothing.
C4_DeleteIdempotent ==
  /\ []C4_DeletePost
  /\ [][C4_SecondDeleteIsNoOp]_vars

\* A Delete(k) has returned nil without an event after an earlier Delete(k)
\* removed the key's completed object.
C4_Witness ==
  /\ DeleteReturned("ok")
  /\ returned.pre = NoObj
  /\ \E i \in 1..Len(retired) : retired[i].Key = returned.key

\* A step of a delete request.
DeleteStep ==
  \/ returned'.kind = "delete"
  \/ \E t \in Handlers : h'[t] # h[t] /\ "delete" \in {h[t].kind, h'[t].kind}

\* C5 (step part): no step of a Delete changes the in-flight map.
C5_DeleteKeepsInflight ==
  DeleteStep => keyToInflightUploads' = keyToInflightUploads

\* C5 (state part): PutObjectCompleted never misses its in-flight entry, and one
\* that finds no completed object for the key returns nil, makes its upload the
\* completed object and emits nothing.
C5_CompletionAfterDelete ==
  /\ ~UploadReturned("not_found")
  /\ (returned.kind = "upload" /\ returned.objectID # "" /\ returned.pre = NoObj
      /\ returned.result \in {"ok", "emit_err"}) =>
       /\ returned.result = "ok"
       /\ returned.emits = <<>>
       /\ Completed(returned.key).ObjectID = returned.objectID

\* C5: Delete(key) only removes completed[key] and leaves every in-flight list
\* as it is; an upload in flight when Delete ran still completes afterwards,
\* successfully and without a deletion event.
C5_DeleteAffectsOnlyCompleted ==
  /\ []C5_CompletionAfterDelete
  /\ [][C5_DeleteKeepsInflight]_vars

\* An upload completes, with no event, on a key whose completed object was
\* deleted after the upload was created: a later upload of the key has been
\* completed and retired, and the key has no completed object.
C5_Witness ==
  /\ UploadReturned("ok")
  /\ returned.pre = NoObj
  /\ \E i \in 1..Len(retired) :
       /\ retired[i].Key = returned.key
       /\ IDNum(retired[i].ObjectID) > IDNum(returned.objectID)

\* list without its i-th element.
RemoveAt(list, i) == SubSeq(list, 1, i - 1) \o SubSeq(list, i + 1, Len(list))

\* C6 (Create): a successful Create(k, o) puts o at the end of inflight[k] and
\* keeps every upload that was in flight before it, in place.
C6_CreateAppends ==
  \A t \in Handlers :
    (h[t].pc = "idle" /\ h'[t].pc = "putobject") =>
      LET old == InflightOf(keyToInflightUploads, h'[t].key)
          new == InflightOf(keyToInflightUploads', h'[t].key)
      IN /\ Len(new) = Len(old) + 1
         /\ SubSeq(new, 1, Len(old)) = old
         /\ new[Len(new)].ObjectID = h'[t].objectID

\* C6 (PutObjectCompleted): a successful PutObjectCompleted(k, o) takes the one
\* entry o out of inflight[k], keeps the others in their order, drops k from
\* the in-flight map exactly when no entry is left, touches no other key, makes
\* o the completed object of k and, when k had a completed object, emits it.
C6_CompletionRemovesOnlyItsEntry ==
  (returned'.kind = "upload" /\ returned'.result = "ok") =>
    LET k == returned'.key
        o == returned'.objectID
        old == InflightOf(keyToInflightUploads, k)
        new == InflightOf(keyToInflightUploads', k)
    IN /\ \E i \in 1..Len(old) : old[i].ObjectID = o /\ new = RemoveAt(old, i)
       /\ (k \in DOMAIN keyToInflightUploads') <=> (Len(old) > 1)
       /\ \A k2 \in Keys \ {k} :
            /\ InflightOf(keyToInflightUploads', k2) = InflightOf(keyToInflightUploads, k2)
            /\ (k2 \in DOMAIN keyToInflightUploads') <=> (k2 \in DOMAIN keyToInflightUploads)
       /\ CompletedOf(keyToObjectMetadata', k).ObjectID = o
       /\ returned'.pre = CompletedOf(keyToObjectMetadata, k)
       /\ returned'.pre # NoObj => returned'.emits = <<returned'.pre>>

\* C6 (state part): the in-flight map holds no empty list.
C6_NoEmptyInflightList ==
  \A k \in DOMAIN keyToInflightUploads : Len(keyToInflightUploads[k]) > 0

\* C6: several uploads can be in flight for one key; each completion removes
\* only its own entry, the others keep their order, the key leaves the
\* in-flight map exactly when its list is empty, the upload completed last is
\* the completed object whatever the order of the Creates, and every completion
\* after the first emits the object completed before it.
C6_ConcurrentUploadsOfOneKey ==
  /\ []C6_NoEmptyInflightList
  /\ [][C6_CreateAppends /\ C6_CompletionRemovesOnlyItsEntry]_vars

\* An upload has replaced, as completed object, an upload of the same key that
\* was created after it, while a third upload of the key is still in flight.
C6_Witness ==
  /\ UploadReturned("ok")
  /\ returned.pre # NoObj
  /\ IDNum(returned.pre.ObjectID) > IDNum(returned.objectID)
  /\ returned.key \in DOMAIN keyToInflightUploads

\* The handlers whose event the emitter has taken and whose store transition is
\* still to come.
Pending == {t \in Handlers : h[t].pc = "emitted" /\ h[t].result = "emit_ok"}

\* C7: the events reach the emitter, and the janitor after it, in the order in
\* which the store's transitions take effect, and each of them is the completed
\* object its transition removes: at most one event is ahead of its transition,
\* the one of the handler that holds the lock.
C7_EmitOrderIsTransitionOrder ==
  /\ Cardinality(Pending) <= 1
  /\ Len(emitted) = Len(retired) + Cardinality(Pending)
  /\ SubSeq(emitted, 1, Len(retired)) = retired
  /\ \A t \in Pending :
       /\ mu = t
       /\ emitted[Len(emitted)] = Completed(h[t].key)
       /\ emitted[Len(emitted)].ObjectID # h[t].objectID
  /\ received \o ch = emitted

\* A handler holds the lock between its Emit and its transition while another
\* one waits to commit, after an earlier event.
C7_Witness ==
  /\ Len(emitted) >= 2
  /\ \E t \in Pending : \E u \in Handlers \ {t} : h[u].pc = "commit"

\* No handler is at work, no event is under way.
Quiescent ==
  /\ \A t \in Handlers : Free(t)
  /\ ch = <<>>
  /\ janitor = NoObj

\* C8: when key k has been uploaded twice, body A by the first upload and a
\* different body B by the second, the second replacing the first, all is at
\* rest and the janitor never gave a deletion up, then the snapshot shows k with B's checksum, the janitor received
\* exactly one event, carrying the first upload's object id, the first
\* upload's blob is gone from storage and the second's is there.
C8_SupersessionEndToEnd ==
  \A k \in Keys :
    (/\ Quiescent
     /\ ~gaveUp
     /\ nextID = 2
     /\ Len(retired) = 1
     /\ retired[1].Key = k
     /\ retired[1].ObjectID = mustUUIDV7(1)
     /\ Completed(k).ObjectID = mustUUIDV7(2)
     /\ Completed(k).SHA256Checksum # retired[1].SHA256Checksum) =>
      /\ mustUUIDV7(2) \in DOMAIN blobs
      /\ Snapshot(keyToObjectMetadata)[k].SHA256Checksum = SHA256(blobs[mustUUIDV7(2)])
      /\ received = <<retired[1]>>
      /\ mustUUIDV7(1) \notin DOMAIN blobs

\* C9: for every event it receives the janitor asks the blob storage to delete
\* the blob named by the event's object id, and no other name.
C9_JanitorDeletesByObjectID ==
  /\ Len(deleteCalls) <= Len(received)
  /\ \A i \in 1..Len(deleteCalls) : deleteCalls[i] = received[i].ObjectID

\* C10 (return): when Emit returned an error to Delete or PutObjectCompleted,
\* the call returns that error, the store is as it was, the key's completed
\* object is the one the call found, and the upload of a PutObjectCompleted is
\* still in flight with no CompletedAt.
C10_EmitErrorReturn ==
  \A t \in Handlers :
    (h[t].pc = "emitted" /\ h[t].result = "emit_err" /\ h'[t] # h[t]) =>
      /\ returned'.result = "emit_err"
      /\ 500 \in {returned'.statuses[i] : i \in 1..Len(returned'.statuses)}
      /\ returned'.emits = <<>>
      /\ UNCHANGED storeVars
      /\ CompletedOf(keyToObjectMetadata', h[t].key) = h[t].existing
      /\ h[t].existing # NoObj
      /\ h[t].kind = "upload" =>
           LET object == FindInflight(InflightOf(keyToInflightUploads', h[t].key), h[t].objectID)
           IN /\ object # NoObj
              /\ ~object.CompletedAt
              /\ CompletedOf(keyToObjectMetadata', h[t].key).ObjectID # h[t].objectID

\* C10 (call): from the moment a Delete or PutObjectCompleted has the lock to the
\* return of the emitter's error nothing in the store changes, and a failed
\* Emit hands nothing to the channel.
C10_EmitErrorCall ==
  /\ (mu # Unlocked /\ mu' = mu) => UNCHANGED storeVars
  /\ \A t \in Handlers :
       (h[t].pc = "emit" /\ h'[t].pc = "emitted" /\ h'[t].result = "emit_err") =>
         UNCHANGED <<storeVars, ch, emitted>>

\* C10: a Delete or PutObjectCompleted whose Emit fails returns the error and
\* leaves the store exactly as it was before the call.
C10_EmitErrorLeavesStore == [][C10_EmitErrorReturn /\ C10_EmitErrorCall]_vars

\* A PutObjectCompleted has returned the emitter's error: its upload is still in
\* flight and the key's completed object is the old one.
C10_Witness ==
  /\ UploadReturned("emit_err")
  /\ returned.pre # NoObj
  /\ Completed(returned.key) = returned.pre
  /\ returned.objectID \in IDs(InflightOf(keyToInflightUploads, returned.key))

\* The object ids of the completed entries, of the objects taken out of
\* completed, of the in-flight records, and of the events emitted.
CompletedIDs == {keyToObjectMetadata[k].ObjectID : k \in DOMAIN keyToObjectMetadata}
RetiredIDs == {retired[i].ObjectID : i \in 1..Len(retired)}
InflightIDs == UNION {IDs(keyToInflightUploads[k]) : k \in DOMAIN keyToInflightUploads}
Events(objectID) == Cardinality({i \in 1..Len(emitted) : emitted[i].ObjectID = objectID})

\* The object whose event the emitter has taken while the handler that holds
\* the lock has not yet made its transition: no other call can see the store.
PendingIDs == {h[t].existing.ObjectID : t \in Pending}

\* C37: no completed object is lost track of.  Each object that has ever
\* been in completed is either the completed entry of its key, with no
\* deletion event, or was taken out with exactly one deletion event, never
\* both and never more than one; and no deletion event is emitted for an
\* object that was never completed.
C37_CompletedOrEmittedOnce ==
  /\ \A o \in CompletedIDs \ PendingIDs : Events(o) = 0 /\ o \notin RetiredIDs
  /\ \A o \in RetiredIDs : Events(o) = 1 /\ o \notin CompletedIDs
  /\ \A o \in PendingIDs : Events(o) = 1 /\ o \in CompletedIDs
  /\ \A i \in 1..Len(emitted) :
       /\ emitted[i].ObjectID \in RetiredIDs \union PendingIDs
       /\ emitted[i].ObjectID \notin InflightIDs

\* One object replaced by an upload and one deleted, each with its event, a
\* third completed with none.
C37_Witness ==
  /\ Len(retired) = 2
  /\ Len(emitted) = 2
  /\ CompletedIDs # {}
  /\ Pending = {}
  /\ \E i \in 1..2 : retired[i].Key \notin DOMAIN keyToObjectMetadata

\* ---------------------------------------------- the server, scheduled fairly

\* The server under the scheduling the code relies on: a handler that can go
\* on does; sync.RWMutex hands the lock to a waiter that finds it free again
\* and again; Emit's send is taken when the channel has room; and Janitor.Run
\* keeps receiving, each cleanup ending after backoff's MaxElapsedTime at the
\* latest.  A request's context is not required to be cancelled.
Fairness ==
  /\ \A t \in Handlers :
       /\ SF_vars(PutObjectCompletedBegin(t))
       /\ WF_vars(Emit(t, FALSE))
       /\ WF_vars(PutObjectCompletedEnd(t))
       /\ WF_vars(DeleteFileEnd(t))
  /\ WF_vars(JanitorReceive)
  /\ WF_vars(\E ok \in BOOLEAN : JanitorCleanup(ok))

LiveSpec == Init /\ [][Next]_vars /\ Fairness

\* Handler t is inside a call of PutObjectCompleted or Delete.
InStoreCall(t) == h[t].pc \in {"commit", "emit", "emitted"}

\* Every store call that is under way returns, and the lock that Create and
\* Snapshot wait for is released.
C39_CallsReturn ==
  /\ \A t \in Handlers : InStoreCall(t) ~> Free(t)
  /\ (mu # Unlocked) ~> (mu = Unlocked)

\* A caller blocked in Emit returns when its context is cancelled.
C39_CancelUnblocks ==
  \A t \in Handlers : h[t].pc = "emit" => ENABLED Emit(t, TRUE)

\* The janitor's receive and its cleanup wait for nothing the store holds:
\* an event in the channel can be received whoever holds the lock, and a
\* cleanup can end.
C39_JanitorNeverWaitsOnStore ==
  /\ (janitor = NoObj /\ ch # <<>>) => ENABLED JanitorReceive
  /\ janitor # NoObj => ENABLED JanitorCleanup(TRUE)

\* C39: no store call blocks forever: although Delete and PutObjectCompleted
\* emit while holding the exclusive lock and the emitter buffers one event,
\* every call returns provided the janitor keeps receiving or the caller's
\* context is cancelled; the janitor never waits on the store, so store,
\* emitter and janitor do not deadlock.
C39_NoStoreCallBlocksForever ==
  /\ C39_CallsReturn
  /\ []C39_CancelUnblocks
  /\ []C39_JanitorNeverWaitsOnStore

\* A Delete or PutObjectCompleted holds the lock in Emit while the channel
\* is full, and another handler waits for the lock.
C39_Witness ==
  \E t, u \in Handlers :
    /\ h[t].pc = "emit"
    /\ mu = t
    /\ Len(ch) = ChanCap
    /\ h[u].pc = "commit"

\* ------------------------------------------------- the store, call by call

\* The MetadataStore driven through its methods with any arguments, each call
\* from Lock to Unlock in one step, the emitter answering nil or an error.

\* The object ids a caller can name: those Create was given, and one it never
\* was.
ObjectIDs == {mustUUIDV7(n) : n \in 1..MaxUploads} \cup {"not-found"}

\* PutObjectCompleted, lines 104-118: ErrNotFound when the key has no in-flight
\* list or the list has no upload with the object id.
NotFound(inflight, key, objectID) ==
  \/ key \notin DOMAIN inflight
  \/ FindInflight(inflight[key], objectID) = NoObj

StoreReturns(kind, key, objectID, result, pre, emits) ==
  returned' = [NoReturn EXCEPT !.kind = kind, !.key = key, !.objectID = objectID,
                               !.result = result, !.pre = pre, !.emits = emits]

\* MetadataStore.Create with a fresh object id.
StoreCreate(key) ==
  /\ nextID < MaxUploads
  /\ LET md == [NoObj EXCEPT !.Key = key, !.ObjectID = mustUUIDV7(nextID + 1)]
     IN /\ CreateErr(md) = ""
        /\ keyToInflightUploads' = Create(keyToInflightUploads, md)
        /\ StoreReturns("create", key, md.ObjectID, "ok", Completed(key), <<>>)
  /\ nextID' = nextID + 1
  /\ UNCHANGED <<keyToObjectMetadata, mu, ch, blobs, h, janitorVars, histVars, libVars>>

\* MetadataStore.PutObjectCompleted, the whole call.
StorePutObjectCompleted(key, objectID, emitErr) ==
  LET pre == Completed(key)
  IN /\ IF NotFound(keyToInflightUploads, key, objectID)
        THEN /\ StoreReturns("put_completed", key, objectID, "not_found", pre, <<>>)
             /\ UNCHANGED <<storeVars, histVars>>
        ELSE IF pre # NoObj /\ emitErr
        THEN /\ StoreReturns("put_completed", key, objectID, "emit_err", pre, <<>>)
             /\ UNCHANGED <<storeVars, histVars>>
        ELSE /\ keyToObjectMetadata' =
                  Promote(keyToObjectMetadata, key,
                          FindInflight(keyToInflightUploads[key], objectID))
             /\ keyToInflightUploads' = RemoveInflight(keyToInflightUploads, key, objectID)
             /\ emitted' = IF pre = NoObj THEN emitted ELSE Append(emitted, pre)
             /\ retired' = IF pre = NoObj THEN retired ELSE Append(retired, pre)
             /\ StoreReturns("put_completed", key, objectID, "ok", pre,
                             IF pre = NoObj THEN <<>> ELSE <<pre>>)
     /\ UNCHANGED <<mu, ch, blobs, h, nextID, janitorVars, libVars>>

\* MetadataStore.Delete, the whole call.
StoreDelete(key, emitErr) ==
  LET pre == Completed(key)
  IN /\ IF pre = NoObj
        THEN /\ StoreReturns("delete", key, "", "ok", pre, <<>>)
             /\ UNCHANGED <<storeVars, histVars>>
        ELSE IF emitErr
        THEN /\ StoreReturns("delete", key, "", "emit_err", pre, <<>>)
             /\ UNCHANGED <<storeVars, histVars>>
        ELSE /\ keyToObjectMetadata' = DeleteCompleted(keyToObjectMetadata, key)
             /\ emitted' = Append(emitted, pre)
             /\ retired' = Append(retired, pre)
             /\ StoreReturns("delete", key, "", "ok", pre, <<pre>>)
             /\ UNCHANGED keyToInflightUploads
     /\ UNCHANGED <<mu, ch, blobs, h, nextID, janitorVars, libVars>>

StoreNext ==
  \/ \E key \in Keys : StoreCreate(key)
  \/ \E key \in Keys, objectID \in ObjectIDs, emitErr \in BOOLEAN :
       StorePutObjectCompleted(key, objectID, emitErr)
  \/ \E key \in Keys, emitErr \in BOOLEAN : StoreDelete(key, emitErr)

StoreSpec == Init /\ [][StoreNext]_vars

\* C11 (step part): a PutObjectCompleted(key, object_id) for which inflight[key]
\* does not exist or holds no entry with that object id returns NotFound, emits
\* nothing and leaves completed and inflight as they are; so does one for an
\* object id that is already the key's completed object.
C11_NotFoundStep ==
  LET k == returned'.key
      o == returned'.objectID
  IN (/\ returned'.kind = "put_completed"
      /\ \/ k \notin DOMAIN keyToInflightUploads
         \/ o \notin IDs(InflightOf(keyToInflightUploads, k))
         \/ CompletedOf(keyToObjectMetadata, k).ObjectID = o) =>
       /\ returned'.result = "not_found"
       /\ returned'.emits = <<>>
       /\ UNCHANGED <<storeVars, emitted, retired>>

\* C11: PutObjectCompleted answers NotFound, with no event and no change, for
\* every upload that is not in flight, an already completed one included.
C11_PutObjectCompletedNotFound == [][C11_NotFoundStep]_vars

\* A second PutObjectCompleted for the key's completed object has returned
\* NotFound while another upload of the key is in flight.
C11_Witness ==
  /\ returned.kind = "put_completed"
  /\ returned.result = "not_found"
  /\ Completed(returned.key).ObjectID = returned.objectID
  /\ returned.key \in DOMAIN keyToInflightUploads

\* ------------------------------------------------------ presigned URLs

\* The names of the query parameters.
ObjectKey == "key"
SHA256Checksum == "sha256"
Size == "size"
MTime == "mtime"
Expiry == "exp"
AccessKeyID == "aki"
Signature == "sig"
ParamNames == {ObjectKey, SHA256Checksum, Size, MTime, Expiry, AccessKeyID}

\* The latest time the clock reaches.
MaxNow == 4

\* The URLData values and secrets the calls are made with.
URLDatas ==
  [ObjectKey : {"k1"}, SHA256Checksum : {"a"}, Size : {1, 2},
   MTime : {1, 2}, Expiry : {2, 3}, AccessKeyID : {"ak1"}]
Secrets == {"s1", "s2"}
BaseURLs == {"http://server/v1/files/upload"}

\* The values a parameter of the URL can be changed to.
TamperValues == {"k2", "b", "ak2", "1", "2", "3", "+2", "x", ""}

\* strconv.FormatInt(n, 10).
FormatInt(n) == ToString(n)

\* strconv.ParseInt(s, 10, 64): the decimal strings, a sign allowed.
ParseTable ==
  [str \in {FormatInt(n) : n \in 0..MaxNow + 1} \cup {"+2"} |->
     IF str = "+2" THEN 2
     ELSE CHOOSE n \in 0..MaxNow + 1 : FormatInt(n) = str]
ParseIntErr(str) == str \notin DOMAIN ParseTable
ParseInt(str) == ParseTable[str]

\* The elements of a sequence.
Range(seq) == {seq[i] : i \in 1..Len(seq)}

\* Faulty variant of SortStrings: the keys stay in the order given.
SortStringsSkipped(keys) == keys

\* sort.Strings on a list of distinct parameter names: the names in
\* lexicographic order.
SortStrings(keys) ==
  SelectSeq(<<"aki", "exp", "key", "mtime", "sha256", "sig", "size">>,
            LAMBDA k : k \in Range(keys))

\* Orders in which maps.Keys can yield the names in set S: sorted, reversed,
\* and rotated by one.
KeyOrders(S) ==
  LET up == SelectSeq(<<"aki", "exp", "key", "mtime", "sha256", "sig", "size">>,
                      LAMBDA k : k \in S)
      n == Len(up)
  IN {up, [i \in 1..n |-> up[n + 1 - i]], [i \in 1..n |-> up[(i % n) + 1]]}

\* Faulty variant of SigLines: mtime is left out of the signed data as sig is.
RECURSIVE SigLinesWithoutMTime(_, _)
SigLinesWithoutMTime(values, keys) ==
  IF keys = <<>> THEN ""
  ELSE (IF Head(keys) \in {Signature, MTime} THEN ""
        ELSE Head(keys) \o "=" \o values[Head(keys)] \o "\n")
       \o SigLinesWithoutMTime(values, Tail(keys))

\* The loop of prepareSigData over the keys in order: a line "k=v\n" for every
\* key but sig.
RECURSIVE SigLines(_, _)
SigLines(values, keys) ==
  IF keys = <<>> THEN ""
  ELSE (IF Head(keys) = Signature THEN ""
        ELSE Head(keys) \o "=" \o values[Head(keys)] \o "\n")
       \o SigLines(values, Tail(keys))

\* prepareSigData, with the order in which maps.Keys yields the keys.
prepareSigData(values, order) == SigLines(values, SortStrings(order))

\* HMAC-SHA256 of data under secretKey, taken as free of collisions.
sign(data, secretKey) == "hmac(" \o secretKey \o "," \o data \o ")"

\* hex.EncodeToString.
EncodeToString(bytes) == "hex(" \o bytes \o ")"

\* A signature value hex.DecodeString rejects.
NotHex == {"x"}

\* url.Values.Encode and, on the server, r.URL.Query(): the parameters as
\* name/value pairs sorted by name, and back.  Escaping leaves the values of
\* the model as they are.
Encode(values) ==
  LET keys == SortStrings(CHOOSE o \in KeyOrders(DOMAIN values) : TRUE)
  IN [i \in 1..Len(keys) |-> <<keys[i], values[keys[i]]>>]
ParseQuery(query) ==
  [k \in {query[i][1] : i \in 1..Len(query)} |->
     query[CHOOSE i \in 1..Len(query) :
             query[i][1] = k /\ \A j \in 1..(i - 1) : query[j][1] # k][2]]

\* url.Values.Get: the first value of the name, "" when there is none.
Get(values, k) == IF k \in DOMAIN values THEN values[k] ELSE ""

\* psurls.Generate, with the order in which maps.Keys yields the parameters.
Generate(data, baseURL, secretKey, order) ==
  LET qValues == (ObjectKey :> data.ObjectKey)
                 @@ (SHA256Checksum :> data.SHA256Checksum)
                 @@ (Size :> FormatInt(data.Size))
                 @@ (MTime :> FormatInt(data.Expiry))
                 @@ (Expiry :> FormatInt(data.Expiry))
                 @@ (AccessKeyID :> data.AccessKeyID)
      sigData == prepareSigData(qValues, order)
      sig == EncodeToString(sign(sigData, secretKey))
  IN [base |-> baseURL, query |-> Encode(qValues @@ (Signature :> sig)),
      order |-> order]

ValidateErr(err) == [err |-> err, data |-> NoURLData]

\* psurls.Validate at time now, with the order in which maps.Keys yields the
\* parameters.
Validate(values, secretKey, now, order) ==
  IF ParseIntErr(Get(values, Expiry)) THEN ValidateErr("invalid or missing expiry")
  ELSE IF now > ParseInt(Get(values, Expiry)) THEN ValidateErr("ErrURLExpired")
  ELSE IF Get(values, Signature) = "" THEN ValidateErr("missing signature")
  ELSE IF Get(values, Signature) \in NotHex
  THEN ValidateErr("invalid signature encoding")
  ELSE IF Get(values, Signature)
            # EncodeToString(sign(prepareSigData(values, order), secretKey))
  THEN ValidateErr("ErrSignatureMismatch")
  ELSE IF ParseIntErr(Get(values, Size)) THEN ValidateErr("invalid or missing size")
  ELSE IF ParseIntErr(Get(values, MTime)) THEN ValidateErr("invalid or missing mtime")
  ELSE [err |-> "",
        data |-> [ObjectKey |-> Get(values, ObjectKey),
                  SHA256Checksum |-> Get(values, SHA256Checksum),
                  Size |-> ParseInt(Get(values, Size)),
                  MTime |-> ParseInt(Get(values, MTime)),
                  Expiry |-> ParseInt(Get(values, Expiry)),
                  AccessKeyID |-> Get(values, AccessKeyID)]]

\* The client calls Generate and holds the URL.
PsGenerate(baseURL, order) ==
  /\ psURL = NoURL
  /\ psURL' = Generate(psData, baseURL, psSecret, order)
  /\ UNCHANGED <<psData, psSecret, psNow, psAgain, psTampered, psValidated>>
  /\ UNCHANGED notPsurlsVars

\* A second Generate call with the same URLData, base URL and secret.
PsGenerateAgain(order) ==
  /\ psURL # NoURL
  /\ psAgain = NoURL
  /\ psTampered = ""
  /\ psValidated = NoValidation
  /\ psAgain' = Generate(psData, psURL.base, psSecret, order)
  /\ UNCHANGED <<psData, psSecret, psNow, psURL, psTampered, psValidated>>
  /\ UNCHANGED notPsurlsVars

\* One parameter of the URL, not sig, gets another value; no Validate call has
\* seen the URL as it is now.
PsTamper(name, value) ==
  /\ psURL # NoURL
  /\ psAgain = NoURL
  /\ psTampered = ""
  /\ Get(ParseQuery(psURL.query), name) # value
  /\ psURL' = [psURL EXCEPT !.query = Encode([ParseQuery(psURL.query) EXCEPT ![name] = value])]
  /\ psTampered' = name
  /\ psValidated' = NoValidation
  /\ UNCHANGED <<psData, psSecret, psNow, psAgain>>
  /\ UNCHANGED notPsurlsVars

\* The server validates the query of the URL with a secret.
PsValidate(secretKey, order) ==
  /\ psURL # NoURL
  /\ psValidated' = [secret |-> secretKey]
                    @@ Validate(ParseQuery(psURL.query), secretKey, psNow, order)
  /\ UNCHANGED <<psData, psSecret, psNow, psURL, psAgain, psTampered>>
  /\ UNCHANGED notPsurlsVars

\* A second passes.
PsTick ==
  /\ psNow < MaxNow
  /\ psNow' = psNow + 1
  /\ UNCHANGED <<psData, psSecret, psURL, psAgain, psTampered, psValidated>>
  /\ UNCHANGED notPsurlsVars

PsurlsInit ==
  /\ ServerInit
  /\ psData \in URLDatas
  /\ psSecret \in Secrets
  /\ psNow = 1
  /\ psURL = NoURL
  /\ psAgain = NoURL
  /\ psTampered = ""
  /\ psValidated = NoValidation
  /\ New
  /\ ClientInit
  /\ NewEmitter
  /\ NewPlanner
  /\ NewSyncer
  /\ NewWalker
  /\ NewAuth
  /\ NewWatcher
  /\ NewBaseline
  /\ NewPipeline

PsurlsNext ==
  \/ \E baseURL \in BaseURLs, order \in KeyOrders(ParamNames) : PsGenerate(baseURL, order)
  \/ \E order \in KeyOrders(ParamNames) : PsGenerateAgain(order)
  \/ \E name \in ParamNames, value \in TamperValues : PsTamper(name, value)
  \/ \E secretKey \in Secrets, order \in KeyOrders(ParamNames \cup {Signature}) :
       PsValidate(secretKey, order)
  \/ PsTick

PsurlsSpec == PsurlsInit /\ [][PsurlsNext]_vars

\* A Validate call has seen the URL as it is.
Validated == psValidated.err # "none"

\* C12: for a URL that is not expired, Validate with the secret of Generate on
\* the query of the generated URL succeeds and returns the URLData that was
\* given to Generate, equal in every field, mtime included.
C12_RoundTrip ==
  (/\ Validated
   /\ psTampered = ""
   /\ psValidated.secret = psSecret
   /\ psNow <= psData.Expiry) =>
    /\ psValidated.err = ""
    /\ psValidated.data = psData

\* C13 as stated: on a URL in which one of key, sha256, size, mtime, exp or aki
\* was changed, sig left as issued, and on the untouched URL with another
\* secret, Validate returns ErrSignatureMismatch (the issued URL not being
\* expired).
C13_TamperGivesSignatureMismatch ==
  (/\ Validated
   /\ psNow <= psData.Expiry
   /\ psTampered # "" \/ psValidated.secret # psSecret) =>
    psValidated.err = "ErrSignatureMismatch"

\* C13 amended: Validate never accepts such a URL; the error is
\* ErrSignatureMismatch whenever the exp it reads is an integer that has not
\* passed, and else the error of the expiry check, which comes first.
C13_TamperNeverValidates ==
  (/\ Validated
   /\ psTampered # "" \/ psValidated.secret # psSecret) =>
    LET exp == Get(ParseQuery(psURL.query), Expiry)
    IN /\ psValidated.err # ""
       /\ (~ParseIntErr(exp) /\ psNow <= ParseInt(exp)) =>
            psValidated.err = "ErrSignatureMismatch"
       /\ psValidated.err \in {"ErrSignatureMismatch", "ErrURLExpired",
                               "invalid or missing expiry"}

\* The exp of a URL was changed to a time that has not passed, and Validate
\* with the issuing secret returned ErrSignatureMismatch.
C13_Witness ==
  /\ psTampered = Expiry
  /\ psValidated.secret = psSecret
  /\ psValidated.err = "ErrSignatureMismatch"

\* C14: two Generate calls with the same URLData, base URL and secret give the
\* same URL, signature included, whatever the order in which the parameters
\* come out of the map; the signature is that of the lines name=value of the
\* parameters sorted by name, sig not among them.
C14_SigningDeterministic ==
  psAgain # NoURL =>
    LET values == ParseQuery(psURL.query)
    IN /\ psAgain.base = psURL.base
       /\ psAgain.query = psURL.query
       /\ Get(values, Signature) =
            EncodeToString(sign(
              "aki=" \o Get(values, AccessKeyID) \o "\n"
              \o "exp=" \o Get(values, Expiry) \o "\n"
              \o "key=" \o Get(values, ObjectKey) \o "\n"
              \o "mtime=" \o Get(values, MTime) \o "\n"
              \o "sha256=" \o Get(values, SHA256Checksum) \o "\n"
              \o "size=" \o Get(values, Size) \o "\n", psSecret))

\* Two Generate calls in which the map gave the parameters in different orders.
C14_Witness == psAgain # NoURL /\ psAgain.order # psURL.order

\* ------------------------------------------- the upload handler, any request

\* One handler serving upload requests of every kind, one after the other: with
\* queries that are turned away, with a Content-Length that is not the signed
\* size, with bodies that do not match the signature, with a storage that
\* fails; the janitor takes the events.
UploadHandlers == {"h1"}

HandlerRequests ==
  {r \in UploadRequests :
     r.key = "k1" /\ r.sha \in {SHA256(<<1>>), ""} /\ r.data \in {<<>>, <<1>>}}

UploadNext ==
  \/ \E t \in UploadHandlers, auth \in AuthOutcomes : UploadFileRejected(t, auth)
  \/ \E t \in UploadHandlers, r \in HandlerRequests : UploadFileCreate(t, r)
  \/ \E t \in UploadHandlers, createOK \in BOOLEAN : UploadFilePutObject(t, createOK)
  \/ \E t \in UploadHandlers : PutObjectCompletedBegin(t)
  \/ \E t \in UploadHandlers, ctxDone \in BOOLEAN : Emit(t, ctxDone)
  \/ \E t \in UploadHandlers : PutObjectCompletedEnd(t)
  \/ JanitorReceive
  \/ \E ok \in BOOLEAN : JanitorCleanup(ok)

UploadSpec == Init /\ [][UploadNext]_vars

\* The handler is in its call of PutObjectCompleted.
InCommit(t) == h[t].pc \in {"commit", "emit", "emitted"}

\* C15 (step part): a request that GetSecretKeyByID or psurls.Validate turns away
\* gets one status, 401 for an unknown access key id, 403 for an expired URL
\* or a signature mismatch, 400 for any other validation error, and the step
\* creates no in-flight record, writes no blob, draws no object id and leaves
\* completed as it is.
C15_RejectedStep ==
  (returned'.kind = "upload" /\ returned'.result \in AuthOutcomes) =>
    /\ returned'.statuses =
         << CASE returned'.result = "unknown_aki" -> 401
              [] returned'.result \in {"ErrURLExpired", "ErrSignatureMismatch"} -> 403
              [] OTHER -> 400 >>
    /\ UNCHANGED <<storeVars, blobs, nextID, ch, emitted>>

\* C15: an upload request failing authentication or URL validation is rejected
\* with 401, 403 or 400 before any state is touched.
C15_RejectedBeforeAnyState == [][C15_RejectedStep]_vars

\* An expired URL was answered 403 by a server that holds a completed object
\* and an upload in flight.
C15_Witness ==
  /\ returned.result = "ErrURLExpired"
  /\ returned.statuses = <<403>>
  /\ DOMAIN keyToObjectMetadata # {}
  /\ DOMAIN keyToInflightUploads # {}

\* C16: a request whose Content-Length differs from the signed size never gets
\* to PutObjectCompleted, whatever its body, and no request that was answered
\* 400 first ends committed.
C16_ContentLengthMismatchNeverCommits ==
  /\ \A t \in Handlers : h[t].clMismatch => ~InCommit(t)
  /\ (returned.kind = "upload" /\ returned.result \in {"ok", "emit_err", "not_found"}) =>
       (returned.statuses = <<>> \/ returned.statuses[1] # 400)

\* C17: PutObjectCompleted is invoked for a request only when the blob storage
\* wrote the body without error and the stored bytes have the signed sha256
\* and size; a checksum or size mismatch is answered 400.
C17_CommitOnlyIfStoredMatches ==
  /\ \A t \in Handlers :
       InCommit(t) =>
         /\ ~h[t].putErr
         /\ h[t].objectID \in DOMAIN blobs
         /\ SHA256(blobs[h[t].objectID]) = h[t].sha
         /\ Len(blobs[h[t].objectID]) = h[t].size
  /\ (returned.kind = "upload"
      /\ returned.result \in {"checksum_mismatch", "size_mismatch"}) =>
       returned.statuses[Len(returned.statuses)] = 400

\* An upload request has been answered.
UploadAnswered == returned.kind = "upload" /\ returned.statuses # <<>>

\* The status the client gets: net/http sends the first status written and
\* ignores a later WriteHeader.
StatusSent == Head(returned.statuses)

\* The response is 201 exactly when PutObjectCompleted returned nil.
C36_CreatedIffCommitted ==
  UploadAnswered => (StatusSent = 201 <=> returned.result = "ok")

\* A failed commit is answered 500.
C36_FailedCommitIs500 ==
  (UploadAnswered /\ returned.result \in {"not_found", "emit_err"}) => StatusSent = 500

\* The handler writes one status line.
C36_OneStatusLine == returned.kind = "upload" => Len(returned.statuses) = 1

\* C36: the upload handler responds 201 exactly when PutObjectCompleted for
\* that request succeeded: if the commit fails (NotFound, an emitter error)
\* the response status is 500 and not 201, and on every path the handler
\* writes exactly one status line.
C36_CreatedExactlyWhenCommitted ==
  C36_CreatedIffCommitted /\ C36_FailedCommitIs500 /\ C36_OneStatusLine

\* The step takes the record of objectID out of the key's in-flight list.
LeavesInflight(key, objectID) ==
  /\ objectID \in IDs(InflightOf(keyToInflightUploads, key))
  /\ objectID \notin IDs(InflightOf(keyToInflightUploads', key))

\* The handler's answer shows an upload that failed after Create: the storage
\* failed (a 500 written before the commit's own), the stored bytes did not
\* match, or the commit failed.
UploadFailedAfterCreate(r) ==
  /\ r.kind = "upload"
  /\ \/ r.result \in {"checksum_mismatch", "size_mismatch", "not_found", "emit_err"}
     \/ r.result = "ok" /\ 500 \in {r.statuses[i] : i \in 1..Len(r.statuses)}

\* A record leaves inflight only in the step in which PutObjectCompleted for
\* that key and object id succeeds.
C38_RemovedOnlyByItsCommit ==
  \A key \in Keys, n \in 1..MaxUploads :
    LeavesInflight(key, mustUUIDV7(n)) =>
      /\ returned'.kind = "upload"
      /\ returned'.result = "ok"
      /\ returned'.key = key
      /\ returned'.objectID = mustUUIDV7(n)

\* The upload that fails after Create returns with its record in flight.
C38_FailedUploadKeepsRecord ==
  UploadFailedAfterCreate(returned') =>
    returned'.objectID \in IDs(InflightOf(keyToInflightUploads', returned'.key))

\* No record in flight has had a deletion event.
C38_NoEventForInflight ==
  \A i \in 1..Len(emitted) : emitted[i].ObjectID \notin InflightIDs

\* C38: the only operation that removes a record from inflight is a
\* successful PutObjectCompleted for that same key and object id: an upload
\* that fails after Create (storage error, checksum or size mismatch, failed
\* commit) leaves its in-flight record in inflight[key] from then on, and no
\* deletion event is emitted for its blob.
C38_FailedUploadStaysInflight ==
  /\ [][C38_RemovedOnlyByItsCommit /\ C38_FailedUploadKeepsRecord]_vars
  /\ []C38_NoEventForInflight

(***************************************************************************)
(* The write-ahead log (package wal, wal.go): a file of records, each      *)
(* ended by a newline, appended to by one producer and tailed by one       *)
(* reader, either through the channels of Consume or by calls of Next.     *)
(***************************************************************************)

NL == "\n"

\* The bytes a message is made of, and the messages given to Append.
WalBytes == {"a", NL}
MaxMsgLen == 2
MaxAppends == 2
MaxCloses == 2
WalMessages == UNION {[1..n -> WalBytes] : n \in 0..MaxMsgLen}

\* bytes.IndexByte on what the reader has not handed out yet: the first
\* index after off at which the file holds the delimiter, or 0.
IndexByte(file, off) ==
  LET hits == {i \in (off + 1)..Len(file) : file[i] = NL}
  IN IF hits = {} THEN 0 ELSE CHOOSE i \in hits : \A j \in hits : i <= j

\* bufio.Reader.ReadBytes('\n') at offset off of the file: the bytes up to
\* and including the delimiter, or everything that is left and io.EOF.
ReadBytes(file, off) ==
  LET i == IndexByte(file, off)
  IN IF i = 0
       THEN [line |-> SubSeq(file, off + 1, Len(file)), err |-> "io.EOF"]
       ELSE [line |-> SubSeq(file, off + 1, i), err |-> "nil"]

\* Append: msg and a newline go through writeBuf to the file.  The write may
\* reach the file in two pieces (next's comment: "the producer's data writes
\* are not atomic with the writing the delimiter"): n bytes now, the rest in
\* WriteTo.  A closed writeFile rejects the write and the file is unchanged.
WalAppend(msg, n) ==
  /\ closed = openFlag
  /\ writeBuf = <<>>
  /\ Len(appended) < MaxAppends
  /\ n \in 1..(Len(msg) + 1)
  /\ LET record == msg \o <<NL>>
     IN /\ walFile' = walFile \o SubSeq(record, 1, n)
        /\ writeBuf' = SubSeq(record, n + 1, Len(record))
  /\ appended' = Append(appended, msg)
  /\ UNCHANGED <<closed, closeCalls, readOff, bytesRead, walMode, walPc, partialRead,
                 line, walCtx, out, walEnd, notWalVars>>

\* The rest of writeBuf.WriteTo(writeFile).
WriteTo ==
  /\ writeBuf # <<>>
  /\ walFile' = walFile \o writeBuf
  /\ writeBuf' = <<>>
  /\ UNCHANGED <<closed, closeCalls, appended, readOff, bytesRead, walMode, walPc,
                 partialRead, line, walCtx, out, walEnd, notWalVars>>

\* Close: CompareAndSwap(openFlag, writerClosedFlag), and the write file is
\* closed by the call that won.  The producer closes between its appends.
WalClose ==
  /\ closeCalls < MaxCloses
  /\ writeBuf = <<>>
  /\ closeCalls' = closeCalls + 1
  /\ closed' = IF closed = openFlag THEN writerClosedFlag ELSE closed
  /\ UNCHANGED <<walFile, writeBuf, appended, readOff, bytesRead, walMode, walPc,
                 partialRead, line, walCtx, out, walEnd, notWalVars>>

\* What the caller sees when next returned err: Next turns ErrClosed into
\* io.EOF and returns any other error; Consume closes its channels, having
\* sent nothing on errc for ErrClosed.
Signal(mode, err) ==
  IF err = "ErrClosed" THEN (IF mode = "Next" THEN "io.EOF" ELSE "closed") ELSE err

\* next returned err to Next or to the goroutine of Consume.  Consume sends a
\* context error on errc before it returns.
WalReturn(err) ==
  IF walMode = "Consume" /\ err # "ErrClosed"
    THEN /\ walPc' = "errc"
         /\ walEnd' = [err |-> err, signal |-> "none"]
    ELSE /\ walPc' = "done"
         /\ walEnd' = [err |-> err, signal |-> Signal(walMode, err)]

\* next returned entry: Next returns it, Consume goes on to send it on out.
WalYield(entry) ==
  IF walMode = "Consume"
    THEN /\ walPc' = "send"
         /\ line' = entry
         /\ UNCHANGED out
    ELSE /\ walPc' = "next"
         /\ line' = <<>>
         /\ out' = Append(out, entry)

\* Consume starts its goroutine, or the caller makes its first call of Next.
WalStart(mode) ==
  /\ walPc = "idle"
  /\ walMode' = mode
  /\ walPc' = "next"
  /\ UNCHANGED <<walFile, closed, closeCalls, writeBuf, appended, readOff, bytesRead,
                 partialRead, line, walCtx, out, walEnd, notWalVars>>

\* The caller's context is cancelled or its deadline passes.
WalCancel ==
  /\ walPc \notin {"idle", "done"}
  /\ walCtx = "live"
  /\ walCtx' = "done"
  /\ UNCHANGED <<walFile, closed, closeCalls, writeBuf, appended, readOff, bytesRead,
                 walMode, walPc, partialRead, line, out, walEnd, notWalVars>>

\* next, on entry: a log closed for reading gives ErrClosed.
nextEnter ==
  /\ walPc = "next"
  /\ IF closed = readerWriterClosedFlag
       THEN /\ WalReturn("ErrClosed")
            /\ UNCHANGED partialRead
       ELSE /\ walPc' = "read"
            /\ partialRead' = <<>>
            /\ UNCHANGED walEnd
  /\ UNCHANGED <<walFile, closed, closeCalls, writeBuf, appended, readOff, bytesRead,
                 walMode, line, walCtx, out, notWalVars>>

\* next, one turn of its loop: the context is looked at, then ReadBytes.  A
\* full line, with what earlier reads kept put before it and without its
\* newline, is the entry; a read that hit EOF goes on to nextEOF.
nextRead ==
  /\ walPc = "read"
  /\ IF walCtx = "done"
       THEN /\ WalReturn("ctx")
            /\ UNCHANGED <<readOff, line, out>>
       ELSE LET r == ReadBytes(walFile, readOff)
                full == partialRead \o r.line
            IN /\ readOff' = readOff + Len(r.line)
               /\ IF r.err = "io.EOF"
                    THEN /\ walPc' = "eof"
                         /\ line' = r.line
                         /\ UNCHANGED out
                    ELSE WalYield(SubSeq(full, 1, Len(full) - 1))
               /\ UNCHANGED walEnd
  /\ UNCHANGED <<walFile, closed, closeCalls, writeBuf, appended, bytesRead, walMode,
                 partialRead, walCtx, notWalVars>>

\* next, after a read that hit EOF: once the writer is closed the reader is
\* closed too and next gives ErrClosed; otherwise it sleeps, keeps the bytes
\* it read and reads again.
nextEOF ==
  /\ walPc = "eof"
  /\ IF closed = writerClosedFlag
       THEN /\ closed' = readerWriterClosedFlag
            /\ WalReturn("ErrClosed")
            /\ UNCHANGED partialRead
       ELSE /\ partialRead' = partialRead \o line
            /\ walPc' = "read"
            /\ UNCHANGED <<closed, walEnd>>
  /\ line' = <<>>
  /\ UNCHANGED <<walFile, closeCalls, writeBuf, appended, readOff, bytesRead, walMode,
                 walCtx, out, notWalVars>>

\* Consume: chans.SendOrDone(ctx, out, entry).  The receiver takes the entry
\* (ok), or the context is done and the goroutine returns, closing both
\* channels.
ConsumeSend(ok) ==
  /\ walPc = "send"
  /\ IF ok
       THEN /\ out' = Append(out, line)
            /\ walPc' = "next"
            /\ UNCHANGED walEnd
       ELSE /\ walCtx = "done"
            /\ walPc' = "done"
            /\ walEnd' = [err |-> "ctx", signal |-> "closed"]
            /\ UNCHANGED out
  /\ line' = <<>>
  /\ UNCHANGED <<walFile, closed, closeCalls, writeBuf, appended, readOff, bytesRead,
                 walMode, partialRead, walCtx, notWalVars>>

\* Consume: chans.SendOrDone(errCtx, errc, err) with errCtx of one second.
\* The receiver takes the error (ok), or the second passes; then both
\* channels are closed.
ConsumeSendErr(ok) ==
  /\ walPc = "errc"
  /\ walPc' = "done"
  /\ walEnd' = [walEnd EXCEPT !.signal = IF ok THEN walEnd.err ELSE "closed"]
  /\ UNCHANGED <<walFile, closed, closeCalls, writeBuf, appended, readOff, bytesRead,
                 walMode, partialRead, line, walCtx, out, notWalVars>>

WalNext ==
  \/ \E msg \in WalMessages, n \in 1..(MaxMsgLen + 1) : WalAppend(msg, n)
  \/ WriteTo
  \/ WalClose
  \/ \E mode \in {"Consume", "Next"} : WalStart(mode)
  \/ WalCancel
  \/ nextEnter
  \/ nextRead
  \/ nextEOF
  \/ \E ok \in BOOLEAN : ConsumeSend(ok)
  \/ \E ok \in BOOLEAN : ConsumeSendErr(ok)

WalSpec == Init /\ [][WalNext]_vars

(***************************************************************************)
(* The write-ahead log with entries and a stop function (package wal as    *)
(* kept in wal_test.go, the one the client's main.go is written against):  *)
(* Append encodes an Entry as one line of JSON, Consume decodes the lines, *)
(* and a StopFunc ends a consumer and rewinds the reader to bytesRead.     *)
(***************************************************************************)

MaxEntries == 3
StageNums == {0, 1}
EntryMessages == {"a", "b"}

\* An Entry as Append builds it (the Timestamp is left out).
Entry(stageNum, msg) ==
  [StageNum |-> stageNum, Message |-> msg, Error |-> "", ErroredBytes |-> <<>>]

\* json.Encoder.Encode(&Entry{...}): one line, ended by a newline.  Message
\* is a JSON string (base64), so the line holds no other newline.
EncodeEntry(entry) == <<"{", ToString(entry.StageNum), entry.Message, "}", NL>>

\* json.Unmarshal(line, &entry) in Consume: the entry of a well-formed line,
\* otherwise the entry Consume builds from the error and the bytes.
Unmarshal(bytes) ==
  IF /\ Len(bytes) = 5
     /\ bytes[1] = "{"
     /\ bytes[2] \in {ToString(n) : n \in StageNums}
     /\ bytes[3] \in EntryMessages
     /\ bytes[4] = "}"
    THEN Entry(CHOOSE n \in StageNums : ToString(n) = bytes[2], bytes[3])
    ELSE [StageNum |-> 0, Message |-> "", Error |-> "unmarshal", ErroredBytes |-> bytes]

\* Faulty variant of Seek: the reader stays where it is.
SeekCurrent(offset, current) == current

\* w.readFile.Seek(w.bytesRead, io.SeekStart) and w.reader.Reset(w.readFile):
\* the offset the reader reads from next.
Seek(offset, current) == offset

\* The StopFunc of indexFirstStageFileChanges.
stopFunc(entry) == entry.StageNum > 0

\* Append(stageNum, msg): the encoder writes the line to the file; as in the
\* reader's comment, the line may reach the file in two pieces.
AppendEntry(stageNum, msg, n) ==
  /\ writeBuf = <<>>
  /\ Len(appended) < MaxEntries
  /\ LET record == EncodeEntry(Entry(stageNum, msg))
     IN /\ n \in 1..Len(record)
        /\ walFile' = walFile \o SubSeq(record, 1, n)
        /\ writeBuf' = SubSeq(record, n + 1, Len(record))
  /\ appended' = Append(appended, Entry(stageNum, msg))
  /\ UNCHANGED <<closed, closeCalls, readOff, bytesRead, walMode, walPc, partialRead,
                 line, walCtx, out, walEnd, notWalVars>>

\* The rest of the encoder's write.
EncodeRest ==
  /\ writeBuf # <<>>
  /\ walFile' = walFile \o writeBuf
  /\ writeBuf' = <<>>
  /\ UNCHANGED <<closed, closeCalls, appended, readOff, bytesRead, walMode, walPc,
                 partialRead, line, walCtx, out, walEnd, notWalVars>>

\* indexFirstStageFileChanges: Consume(ctx, WithStopFunc(StageNum > 0)) with
\* a context of one second.
ConsumeInitialSync ==
  /\ walPc = "idle"
  /\ walMode' = "sync"
  /\ walPc' = "read"
  /\ UNCHANGED <<walFile, closed, closeCalls, writeBuf, appended, readOff, bytesRead,
                 partialRead, line, walCtx, out, walEnd, notWalVars>>

\* A later Consume(ctx) without options, once the first consumer has ended:
\* a new goroutine and a new context on the same reader.
ConsumeAgain ==
  /\ walPc = "done"
  /\ walMode = "sync"
  /\ walMode' = IF walEnd.err = "stop" THEN "resume" ELSE "restart"
  /\ walPc' = "read"
  /\ walCtx' = "live"
  /\ walEnd' = NotEnded
  /\ partialRead' = <<>>
  /\ line' = <<>>
  /\ UNCHANGED <<walFile, closed, closeCalls, writeBuf, appended, readOff, bytesRead,
                 out, notWalVars>>

\* Consume, one turn of its loop up to the send: a done context ends the
\* goroutine; a read that hit EOF keeps its bytes in partialData; a full line
\* is decoded, and either the stop function ends the consumer, which seeks
\* to bytesRead, or the entry goes on to be sent.
ConsumeRead ==
  /\ walPc = "read"
  /\ IF walCtx = "done"
       THEN /\ walPc' = "done"
            /\ walEnd' = [err |-> "ctx", signal |-> "closed"]
            /\ UNCHANGED <<readOff, partialRead, line>>
       ELSE LET r == ReadBytes(walFile, readOff)
                full == partialRead \o r.line
            IN IF r.err = "io.EOF"
                 THEN /\ readOff' = readOff + Len(r.line)
                      /\ partialRead' = full
                      /\ UNCHANGED <<walPc, line, walEnd>>
                 ELSE IF walMode = "sync" /\ stopFunc(Unmarshal(full))
                   THEN /\ readOff' = Seek(bytesRead, readOff + Len(r.line))
                        /\ walPc' = "done"
                        /\ walEnd' = [err |-> "stop", signal |-> "closed"]
                        /\ partialRead' = <<>>
                        /\ UNCHANGED line
                   ELSE /\ readOff' = readOff + Len(r.line)
                        /\ walPc' = "send"
                        /\ line' = full
                        /\ partialRead' = <<>>
                        /\ UNCHANGED walEnd
  /\ UNCHANGED <<walFile, closed, closeCalls, writeBuf, appended, bytesRead, walMode,
                 walCtx, out, notWalVars>>

\* Consume: chans.SendOrDone(ctx, out, &entry) and what follows.  The
\* receiver takes the entry (ok) and bytesRead grows by the line's length,
\* unless the entry is an error entry, which ends the consumer; or the
\* context is done and the goroutine returns.
ConsumeDeliver(ok) ==
  /\ walPc = "send"
  /\ LET entry == Unmarshal(line)
     IN IF ok
          THEN /\ out' = Append(out, entry)
               /\ IF entry.Error # ""
                    THEN /\ walPc' = "done"
                         /\ walEnd' = [err |-> entry.Error, signal |-> "closed"]
                         /\ UNCHANGED bytesRead
                    ELSE /\ walPc' = "read"
                         /\ bytesRead' = bytesRead + Len(line)
                         /\ UNCHANGED walEnd
          ELSE /\ walCtx = "done"
               /\ walPc' = "done"
               /\ walEnd' = [err |-> "ctx", signal |-> "closed"]
               /\ UNCHANGED <<out, bytesRead>>
  /\ line' = <<>>
  /\ UNCHANGED <<walFile, closed, closeCalls, writeBuf, appended, readOff, walMode,
                 partialRead, walCtx, notWalVars>>

EntryNext ==
  \/ \E stageNum \in StageNums, msg \in EntryMessages :
       \E n \in 1..Len(EncodeEntry(Entry(stageNum, msg))) : AppendEntry(stageNum, msg, n)
  \/ EncodeRest
  \/ ConsumeInitialSync
  \/ ConsumeAgain
  \/ WalCancel
  \/ ConsumeRead
  \/ \E ok \in BOOLEAN : ConsumeDeliver(ok)

EntrySpec == Init /\ [][EntryNext]_vars

(***************************************************************************)
(* Claims about the write-ahead log.                                       *)
(***************************************************************************)

IsPrefix(s, t) == Len(s) <= Len(t) /\ SubSeq(t, 1, Len(s)) = s

\* The messages whose Append has returned: their records are whole in the file.
Produced ==
  IF writeBuf = <<>> THEN appended ELSE SubSeq(appended, 1, Len(appended) - 1)

\* The reader has read all that was produced and is waiting for more.
CaughtUp ==
  /\ walPc \in {"read", "eof"}
  /\ writeBuf = <<>>
  /\ readOff = Len(walFile)

\* C18: WAL round trip.  Whatever the reader has received is a prefix of the
\* messages appended, each once, unaltered and in append order, and a reader
\* that has read until all are produced has received exactly b1, ..., bn;
\* the reader may start before, during or after the appends.
C18_RoundTrip ==
  /\ IsPrefix(out, Produced)
  /\ CaughtUp => out = Produced

\* The complete records of a file: its lines, each without its newline.
RECURSIVE Records(_)
Records(file) ==
  LET i == IndexByte(file, 0)
  IN IF i = 0 THEN <<>>
     ELSE <<SubSeq(file, 1, i - 1)>> \o Records(SubSeq(file, i + 1, Len(file)))

\* A step of Close.
CloseStep == closeCalls' = closeCalls + 1

\* Close moves closed from Open to WriterClosed and a repeated Close changes
\* nothing; no step moves closed backwards.
C19_ForwardAndIdempotent ==
  /\ closed' >= closed
  /\ closed' \in {openFlag, writerClosedFlag, readerWriterClosedFlag}
  /\ CloseStep =>
       /\ closed = openFlag => closed' = writerClosedFlag
       /\ closed # openFlag =>
            UNCHANGED <<walFile, closed, writeBuf, appended, readOff, walPc, out, walEnd>>

\* A reader that ended because the log was closed has received every complete
\* record of the file (nothing is appended after Close).
C19_DrainedAtEndOfStream ==
  walEnd.err = "ErrClosed" => out = Records(walFile)

\* The end-of-stream signal (Consume: channels closed and nothing on errc;
\* Next: io.EOF) is given only for a closed log; a reader ended by its context
\* reports the context error.
C19_EndOfStreamOrContextError ==
  walPc = "done" =>
    /\ walEnd.err = "ErrClosed" <=> walEnd.signal \in {"closed", "io.EOF"}
    /\ walEnd.err = "ctx" <=> walEnd.signal = "ctx"

\* C19: Close is idempotent and moves the state only forward through
\* Open -> WriterClosed -> ReaderWriterClosed; after Close the reader still
\* receives every complete record appended before the close and only then
\* ends with the end-of-stream signal, which differs from the end by context
\* cancellation, which reports the context error.
C19_CloseDrainsThenEndOfStream ==
  /\ [][C19_ForwardAndIdempotent]_vars
  /\ [](C19_DrainedAtEndOfStream /\ C19_EndOfStreamOrContextError)

\* The bytes these entries take in the file: each followed by its newline.
RECURSIVE Joined(_)
Joined(entries) ==
  IF entries = <<>> THEN <<>>
  ELSE Head(entries) \o <<NL>> \o Joined(Tail(entries))

\* The bytes the reader has read and not yet handed to its caller: what next
\* keeps from reads that hit EOF, the read it is looking at, or the entry
\* Consume is sending.
Held ==
  CASE walPc = "read" -> partialRead
    [] walPc = "eof" -> partialRead \o line
    [] walPc = "send" -> line \o <<NL>>
    [] OTHER -> <<>>

\* While the reader runs, the bytes it has read are the entries it gave out
\* followed by the bytes it holds: the retry drops and repeats none.
C31_BytesAccounted ==
  walPc \in {"idle", "next", "read", "eof", "send"} =>
    Joined(out) \o Held = SubSeq(walFile, 1, readOff)

\* An entry given out is one record: no newline inside it.
C31_Unsplit ==
  \A i \in 1..Len(out) : IndexByte(out[i], 0) = 0

\* A reader that ended because the log was closed gave out every byte it had
\* read: none was kept from a read that hit EOF and then dropped.
C31_ReadBytesYielded ==
  walEnd.err = "ErrClosed" => Joined(out) = SubSeq(walFile, 1, readOff)

\* C31: partial reads never cause data loss.  A reader that reaches the end
\* of the file in the middle of a record keeps the bytes, reads again, and
\* once the rest and the newline are written gives out the whole record,
\* once, unsplit and in order; no byte of a record is dropped or repeated.
C31_PartialReadsLoseNothing ==
  /\ C31_BytesAccounted
  /\ C31_Unsplit
  /\ C31_ReadBytesYielded

\* The number of bytes the records of these entries take in the file.
RECURSIVE EncodedLen(_)
EncodedLen(entries) ==
  IF entries = <<>> THEN 0
  ELSE Len(EncodeEntry(Head(entries))) + EncodedLen(Tail(entries))

\* The longest prefix of entries of stage 0.
LeadingStageZero(entries) ==
  LET zero(k) == \A i \in 1..k : entries[i].StageNum = 0
      n == CHOOSE k \in 0..Len(entries) :
             zero(k) /\ \A j \in 0..Len(entries) : zero(j) => j <= k
  IN SubSeq(entries, 1, n)

\* The step in which the stop function returns true.
StopStep == walEnd.err # "stop" /\ walEnd'.err = "stop"

\* The stopped consumer delivers nothing in that step and leaves the reader
\* just before the triggering entry: after the records of the entries
\* delivered so far, where the next line read is the entry that stopped it.
C20_StopRewinds ==
  StopStep =>
    /\ out' = out
    /\ readOff' = EncodedLen(out)
    /\ LET r == ReadBytes(walFile', readOff')
       IN /\ r.err = "nil"
          /\ Unmarshal(r.line) = appended[Len(out) + 1]
          /\ stopFunc(Unmarshal(r.line))

\* The consumer started after the stop goes on where the first one stopped:
\* the two together have received a prefix of the entries appended, each
\* once and in order, and all of them once the second has caught up.
C20_AcrossTwoConsumers ==
  (walMode = "resume" \/ walEnd.err = "stop") =>
    /\ IsPrefix(out, Produced)
    /\ CaughtUp => out = Produced

\* The client's initial sync receives entries of stage 0 only, in order from
\* the start of the log, and when its stop function ends it, it has received
\* exactly the leading entries of stage 0.
C20_InitialSync ==
  walMode = "sync" =>
    /\ \A i \in 1..Len(out) : out[i].StageNum = 0
    /\ IsPrefix(out, LeadingStageZero(appended))
    /\ walEnd.err = "stop" => out = LeadingStageZero(Produced)

OpCreated == "op_created"
OpRemoved == "op_removed"
OpModified == "op_modified"

Paths == {"p1", "p2"}
MaxTime == 2
MaxEvents == 3
MaxSnapshots == 2

\* The payloads the pipeline's second stage hands to the sink.
FileMetadatas ==
  [Path : Paths, Size : {1}, SHA256 : {"a"}, MTime : {1},
   Op : {OpModified, OpRemoved}, Timestamp : 1..MaxTime]

\* Faulty variant of IndexCanLock: the lock is not exclusive.
IndexCanLockShared(m) == TRUE

\* Index.mu.Lock() succeeds.
IndexCanLock(m) == m = Unlocked

\* existingMD.Timestamp.After(md.Timestamp) for the entry of md's path, if any.
After(m, md) == md.Path \in DOMAIN m /\ m[md.Path].Timestamp > md.Timestamp

\* The sink is called with md and takes the lock.
IndexerSinkLock(md) ==
  /\ Len(sunk) < MaxEvents
  /\ sinkMD = NoMD
  /\ IndexCanLock(idxMu)
  /\ idxMu' = "sink"
  /\ sinkMD' = md
  /\ UNCHANGED <<index, snapshot, sunk, snapshots, notIndexVars>>

\* The sink under the lock: a payload older than the entry of its path is
\* dropped, any other is stored; the deferred Unlock.
IndexerSink ==
  /\ sinkMD # NoMD
  /\ index' = IF After(index, sinkMD) THEN index ELSE MapPut(index, sinkMD.Path, sinkMD)
  /\ sunk' = Append(sunk, [md |-> sinkMD, accepted |-> ~After(index, sinkMD),
                           purges |-> Len(snapshots)])
  /\ sinkMD' = NoMD
  /\ idxMu' = Unlocked
  /\ UNCHANGED <<snapshot, snapshots, notIndexVars>>

\* SnapshotAndPurge takes the lock.
SnapshotAndPurgeLock ==
  /\ Len(snapshots) < MaxSnapshots
  /\ snapshot = NoMD
  /\ idxMu # "snapshot"
  /\ IndexCanLock(idxMu)
  /\ idxMu' = "snapshot"
  /\ UNCHANGED <<index, sinkMD, snapshot, sunk, snapshots, notIndexVars>>

\* snapshot := maps.Clone(i.idx)
SnapshotClone ==
  /\ idxMu = "snapshot"
  /\ snapshot = NoMD
  /\ snapshot' = index
  /\ UNCHANGED <<index, idxMu, sinkMD, sunk, snapshots, notIndexVars>>

\* i.idx = make(...); the deferred Unlock; return snapshot.
SnapshotPurge ==
  /\ snapshot # NoMD
  /\ index' = [x \in {} |-> NoMD]
  /\ snapshots' = Append(snapshots, snapshot)
  /\ snapshot' = NoMD
  /\ idxMu' = Unlocked
  /\ UNCHANGED <<sinkMD, sunk, notIndexVars>>

IndexNext ==
  \/ \E md \in FileMetadatas : IndexerSinkLock(md)
  \/ IndexerSink
  \/ SnapshotAndPurgeLock
  \/ SnapshotClone
  \/ SnapshotPurge

IndexSpec == Init /\ [][IndexNext]_vars

(***************************************************************************)
(* Claims about the index.                                                 *)
(***************************************************************************)

\* The sink calls, by number, that stored their payload for path.
Updates(path) == {i \in 1..Len(sunk) : sunk[i].accepted /\ sunk[i].md.Path = path}

\* The timestamps the sink has seen for path.
Observed(path) == {sunk[i].md.Timestamp : i \in {j \in 1..Len(sunk) : sunk[j].md.Path = path}}

\* From one update of a path to the next the stored timestamp does not decrease.
C21_UpdatesNeverDecrease ==
  \A path \in Paths : \A i, j \in Updates(path) :
    i < j => sunk[i].md.Timestamp <= sunk[j].md.Timestamp

\* The stored timestamp of a path is the largest the sink has seen for it.
C21_StoredIsMaximumObserved ==
  \A path \in DOMAIN index : \A t \in Observed(path) : t <= index[path].Timestamp

\* C21: for every path, over any sequence of sink calls and SnapshotAndPurge
\* calls and any order of delivery, the timestamp stored for the path never
\* decreases from one update to the next and is the maximum timestamp ever
\* observed for the path (an older event is discarded).
C21_TimestampMonotone ==
  /\ C21_UpdatesNeverDecrease
  /\ C21_StoredIsMaximumObserved

\* The sink calls that stored their payload after k purges and before the next.
UpsertsAfter(k) == {i \in 1..Len(sunk) : sunk[i].accepted /\ sunk[i].purges = k}

\* What those upserts leave in the map: for each path the payload of the last.
Upserted(k) ==
  LET last(path) == CHOOSE i \in UpsertsAfter(k) :
                      /\ sunk[i].md.Path = path
                      /\ \A j \in UpsertsAfter(k) : sunk[j].md.Path = path => j <= i
  IN [path \in {sunk[i].md.Path : i \in UpsertsAfter(k)} |-> sunk[last(path)].md]

\* Each result of SnapshotAndPurge holds the upserts accepted since the
\* result before it, and no others.
C22_UpsertInFirstSnapshotAfterIt ==
  \A k \in 1..Len(snapshots) : snapshots[k] = Upserted(k - 1)

\* The map is empty when SnapshotAndPurge returns.
C22_EmptyAfterPurge ==
  Len(snapshots') > Len(snapshots) => index' = [x \in {} |-> NoMD]

MaxEmits == 3

\* e.wg.Done() of the WaitGroup g: the counter goes down; when it reaches
\* zero with goroutines in Wait, the waiters are counted out and woken.
WgDone(g) ==
  IF g.v = 1 THEN [v |-> 0, w |-> 0] ELSE [g EXCEPT !.v = @ - 1]

\* Emit returns result to caller e; the deferred e.wg.Done() runs.
EmitReturn(e, result) ==
  /\ emit' = [emit EXCEPT ![e] = [@ EXCEPT !.pc = "returned", !.result = result]]
  /\ wg' = WgDone(wg)
  /\ closer' = IF wg.v = 1
                 THEN [c \in CloseCallers |->
                         IF closer[c] = "waiting" THEN "woken" ELSE closer[c]]
                 ELSE closer

\* Emit is called: e.wg.Add(1).  late: Close had been called before.
EmitAdd(e) ==
  /\ ePanic = ""
  /\ emit[e].pc \in {"idle", "returned"}
  /\ emitCalls < MaxEmits
  /\ emitCalls' = emitCalls + 1
  /\ wg' = [wg EXCEPT !.v = @ + 1]
  /\ emit' = [emit EXCEPT ![e] = [NoEmit EXCEPT !.pc = "load", !.late = eClosed]]
  /\ UNCHANGED <<eClosed, eDone, chClosed, closer, ePanic, notEmitterVars>>

\* A faulty Emit that does not look at the closed flag.
EmitLoadUnchecked(e) ==
  /\ ePanic = ""
  /\ emit[e].pc = "load"
  /\ emit' = [emit EXCEPT ![e].pc = "select"]
  /\ UNCHANGED <<wg, closer, eClosed, eDone, chClosed, emitCalls, ePanic, notEmitterVars>>

\* if e.closed.Load() { return ErrClosed }
EmitLoad(e) ==
  /\ ePanic = ""
  /\ emit[e].pc = "load"
  /\ IF eClosed
       THEN EmitReturn(e, "ErrClosed")
       ELSE /\ emit' = [emit EXCEPT ![e].pc = "select"]
            /\ UNCHANGED <<wg, closer>>
  /\ UNCHANGED <<eClosed, eDone, chClosed, emitCalls, ePanic, notEmitterVars>>

\* The context of caller e's call is cancelled.
EmitCtxDone(e) ==
  /\ ePanic = ""
  /\ emit[e].pc \in {"load", "select"}
  /\ ~emit[e].ctxDone
  /\ emit' = [emit EXCEPT ![e].ctxDone = TRUE]
  /\ UNCHANGED <<eClosed, eDone, chClosed, wg, closer, emitCalls, ePanic, notEmitterVars>>

\* A faulty Emit whose select has a default case: with the buffer full it
\* returns nil and the object is gone.
EmitSelectDefault(e, case) ==
  /\ ePanic = ""
  /\ emit[e].pc = "select"
  /\ \/ /\ case = "ctx"
        /\ emit[e].ctxDone
        /\ EmitReturn(e, "ctx")
        /\ UNCHANGED <<ch, ePanic>>
     \/ /\ case = "done"
        /\ eDone
        /\ EmitReturn(e, "ErrClosed")
        /\ UNCHANGED <<ch, ePanic>>
     \/ /\ case = "send"
        /\ ch' = IF Len(ch) < ChanCap THEN Append(ch, [NoObj EXCEPT !.ObjectID = e]) ELSE ch
        /\ EmitReturn(e, "nil")
        /\ UNCHANGED ePanic
  /\ UNCHANGED <<eClosed, eDone, chClosed, emitCalls, notEmitterChVars>>

\* The select of Emit takes one of its cases that can proceed: the context is
\* done, e.done is closed, or the send on e.ch (a send on a closed channel
\* proceeds, and panics).
EmitSelect(e, case) ==
  /\ ePanic = ""
  /\ emit[e].pc = "select"
  /\ \/ /\ case = "ctx"
        /\ emit[e].ctxDone
        /\ EmitReturn(e, "ctx")
        /\ UNCHANGED <<ch, ePanic>>
     \/ /\ case = "done"
        /\ eDone
        /\ EmitReturn(e, "ErrClosed")
        /\ UNCHANGED <<ch, ePanic>>
     \/ /\ case = "send"
        /\ ~chClosed
        /\ Len(ch) < ChanCap
        /\ ch' = Append(ch, [NoObj EXCEPT !.ObjectID = e])
        /\ EmitReturn(e, "nil")
        /\ UNCHANGED ePanic
     \/ /\ case = "send"
        /\ chClosed
        /\ ePanic' = "send on closed channel"
        /\ UNCHANGED <<ch, emit, wg, closer>>
  /\ UNCHANGED <<eClosed, eDone, chClosed, emitCalls, notEmitterChVars>>

\* A receive from Chan().
ChanReceive ==
  /\ ePanic = ""
  /\ Len(ch) > 0
  /\ ch' = Tail(ch)
  /\ UNCHANGED <<emitterVars, notEmitterChVars>>

\* Close: e.closed.CompareAndSwap(false, true); the call that loses returns.
CloseCompareAndSwap(c) ==
  /\ ePanic = ""
  /\ closer[c] = "idle"
  /\ eClosed' = TRUE
  /\ closer' = [closer EXCEPT ![c] = IF eClosed THEN "returned" ELSE "done"]
  /\ UNCHANGED <<eDone, chClosed, wg, emit, emitCalls, ePanic, notEmitterVars>>

\* close(e.done)
CloseDone(c) ==
  /\ ePanic = ""
  /\ closer[c] = "done"
  /\ IF eDone
       THEN ePanic' = "close of closed channel" /\ UNCHANGED <<eDone, closer>>
       ELSE /\ eDone' = TRUE
            /\ closer' = [closer EXCEPT ![c] = "wait"]
            /\ UNCHANGED ePanic
  /\ UNCHANGED <<eClosed, chClosed, wg, emit, emitCalls, notEmitterVars>>

\* e.wg.Wait(): it returns at once when the counter is zero, otherwise the
\* caller is counted as a waiter and sleeps.
CloseWait(c) ==
  /\ ePanic = ""
  /\ closer[c] = "wait"
  /\ IF wg.v = 0
       THEN closer' = [closer EXCEPT ![c] = "ch"] /\ UNCHANGED wg
       ELSE /\ closer' = [closer EXCEPT ![c] = "waiting"]
            /\ wg' = [wg EXCEPT !.w = @ + 1]
  /\ UNCHANGED <<eClosed, eDone, chClosed, emit, emitCalls, ePanic, notEmitterVars>>

\* e.wg.Wait(), woken: sync.WaitGroup panics when its state has changed
\* since the waiters were woken ("WaitGroup is reused before previous Wait
\* has returned"), that is when an Add has come in between.
CloseWoken(c) ==
  /\ ePanic = ""
  /\ closer[c] = "woken"
  /\ IF wg # [v |-> 0, w |-> 0]
       THEN ePanic' = "WaitGroup is reused before previous Wait has returned"
            /\ UNCHANGED closer
       ELSE closer' = [closer EXCEPT ![c] = "ch"] /\ UNCHANGED ePanic
  /\ UNCHANGED <<eClosed, eDone, chClosed, wg, emit, emitCalls, notEmitterVars>>

\* Faulty variant of CloseCh: closing the data channel discards what is buffered.
CloseChDropping(c) ==
  /\ ePanic = ""
  /\ closer[c] = "ch"
  /\ IF chClosed
       THEN ePanic' = "close of closed channel" /\ UNCHANGED <<chClosed, closer, ch>>
       ELSE /\ chClosed' = TRUE
            /\ ch' = <<>>
            /\ closer' = [closer EXCEPT ![c] = "returned"]
            /\ UNCHANGED ePanic
  /\ UNCHANGED <<eClosed, eDone, wg, emit, emitCalls, notEmitterChVars>>

\* close(e.ch)
CloseCh(c) ==
  /\ ePanic = ""
  /\ closer[c] = "ch"
  /\ IF chClosed
       THEN ePanic' = "close of closed channel" /\ UNCHANGED <<chClosed, closer>>
       ELSE /\ chClosed' = TRUE
            /\ closer' = [closer EXCEPT ![c] = "returned"]
            /\ UNCHANGED ePanic
  /\ UNCHANGED <<eClosed, eDone, wg, emit, emitCalls, notEmitterVars>>

EmitterNext ==
  \/ \E e \in EmitCallers : EmitAdd(e)
  \/ \E e \in EmitCallers : EmitLoad(e)
  \/ \E e \in EmitCallers : EmitCtxDone(e)
  \/ \E e \in EmitCallers, case \in {"ctx", "done", "send"} : EmitSelect(e, case)
  \/ ChanReceive
  \/ \E c \in CloseCallers : CloseCompareAndSwap(c)
  \/ \E c \in CloseCallers : CloseDone(c)
  \/ \E c \in CloseCallers : CloseWait(c)
  \/ \E c \in CloseCallers : CloseWoken(c)
  \/ \E c \in CloseCallers : CloseCh(c)

EmitterSpec == Init /\ [][EmitterNext]_vars

(***************************************************************************)
(* Claims about the emitter.                                               *)
(***************************************************************************)

\* Caller e's Emit returns in this step.
EmitReturns(e) == emit[e].pc # "returned" /\ emit'[e].pc = "returned"

\* An Emit called after Close was called returns ErrClosed and leaves the
\* data channel as it is.
C23_LateEmitIsRefused ==
  \A e \in EmitCallers :
    (EmitReturns(e) /\ emit[e].late) => (emit'[e].result = "ErrClosed" /\ ch' = ch)

\* A Close called after Close was called returns and changes nothing.
C23_LateCloseIsNoOp ==
  \A c \in CloseCallers :
    (closer[c] = "idle" /\ closer'[c] # "idle" /\ eClosed) =>
      /\ closer'[c] = "returned"
      /\ UNCHANGED <<ch, eClosed, eDone, chClosed, wg, emit, ePanic>>

\* Closed stays closed.
C23_ClosedStays ==
  /\ eClosed => eClosed'
  /\ eDone => eDone'
  /\ chClosed => chClosed'

\* Once the Close calls made have returned the data channel is closed; a
\* late Emit never gets to the select; no channel is closed twice.
C23_ClosedState ==
  /\ (\E c \in CloseCallers : closer[c] = "returned")
       /\ (\A c \in CloseCallers : closer[c] \in {"idle", "returned"}) => chClosed
  /\ \A e \in EmitCallers : emit[e].late => emit[e].pc # "select"
  /\ ePanic # "close of closed channel"

\* C23: Closed is an absorbing state of the emitter: once Close has been
\* called, every later Emit returns the Closed error without enqueuing
\* anything, the data channel is and stays closed for receivers, and every
\* later Close returns without effect (no panic, no double close).
C23_ClosedIsAbsorbing ==
  /\ [][C23_LateEmitIsRefused /\ C23_LateCloseIsNoOp /\ C23_ClosedStays]_vars
  /\ []C23_ClosedState

\* Both Close calls have returned, the channel is closed, and an Emit called
\* after Close has returned ErrClosed.
C23_Witness ==
  /\ \A c \in CloseCallers : closer[c] = "returned"
  /\ chClosed
  /\ \E e \in EmitCallers :
       emit[e].late /\ emit[e].pc = "returned" /\ emit[e].result = "ErrClosed"

\* When the data channel is closed no Emit is at its select, and an Emit
\* still in its call was called after Close.
C24_ClosedAfterEmitsReturned ==
  chClosed => \A e \in EmitCallers :
    /\ emit[e].pc # "select"
    /\ emit[e].pc = "load" => emit[e].late

\* An Emit at its select when e.done is closed can return, and with the
\* buffer still full and its context live it returns ErrClosed.
C24_BlockedEmitReleased ==
  \A e \in EmitCallers :
    (EmitReturns(e) /\ emit[e].pc = "select" /\ eDone /\ ~emit[e].ctxDone
       /\ Len(ch) = ChanCap) => emit'[e].result = "ErrClosed"

\* C24: in every interleaving of concurrent Emit and Close calls, Close
\* closes the data channel only after every Emit that had started has
\* returned, so no Emit ever sends on a closed channel and nothing panics,
\* and an Emit blocked on a full buffer when Close is called is released
\* with the Closed error.
C24_CloseWaitsForEmits ==
  /\ [][C24_BlockedEmitReleased]_vars
  /\ [](C24_ClosedAfterEmitsReturned /\ ePanic = "")

\* An Emit that returns nil has put its object on the data channel in the
\* step in which it returns.
C32_NilAfterEnqueue ==
  \A e \in EmitCallers :
    (EmitReturns(e) /\ emit'[e].result = "nil") =>
      ch' = Append(ch, [NoObj EXCEPT !.ObjectID = e])

\* An Emit that returns the context error had its context cancelled and
\* leaves the data channel as it is.
C32_CtxErrorEnqueuesNothing ==
  \A e \in EmitCallers :
    (EmitReturns(e) /\ emit'[e].result = "ctx") => (emit[e].ctxDone /\ ch' = ch)

\* An Emit at its select with the buffer full stays there unless its context
\* is cancelled or the emitter is closed, and then it returns that error.
C32_BlockedUntilCancelOrClose ==
  \A e \in EmitCallers :
    (emit[e].pc = "select" /\ Len(ch) = ChanCap /\ emit'[e].pc # "select") =>
      /\ emit[e].ctxDone \/ eDone
      /\ emit'[e].result \in {"ctx", "ErrClosed"}
      /\ emit'[e].result = "ctx" => emit[e].ctxDone
      /\ emit'[e].result = "ErrClosed" => eDone
      /\ ch' = ch

\* C32: Emit blocks until delivery or cancellation.  Emit returns nil only
\* after the object has been placed on the data channel; with the one-slot
\* buffer full and nobody receiving, Emit does not return until its context
\* is cancelled (then it returns the context error and enqueues nothing) or
\* the emitter is closed.
C32_EmitBlocks ==
  [][C32_NilAfterEnqueue /\ C32_CtxErrorEnqueuesNothing
       /\ C32_BlockedUntilCancelOrClose]_vars

\* One Emit has returned nil and its object fills the buffer; the other Emit
\* found the buffer full and returned the context error.
C32_Witness ==
  \E e1, e2 \in EmitCallers :
    /\ emit[e1].pc = "returned" /\ emit[e1].result = "nil"
    /\ ch = <<[NoObj EXCEPT !.ObjectID = e1]>>
    /\ emitCalls = 2
    /\ emit[e2].pc = "returned" /\ emit[e2].result = "ctx"
    /\ ~eClosed

\* The object caller e emits.
ObjectOf(e) == [NoObj EXCEPT !.ObjectID = e]

\* The step is an Emit returning nil that puts its object behind everything
\* already in the data channel.
EnqueuesLast ==
  \E e \in EmitCallers :
    /\ EmitReturns(e)
    /\ emit'[e].result = "nil"
    /\ ch' = Append(ch, ObjectOf(e))

\* The step is a receive of the object at the front of the data channel;
\* no Emit and no Close call moves.
ReceivesFirst ==
  /\ ch # <<>>
  /\ ch' = Tail(ch)
  /\ UNCHANGED <<emit, closer, chClosed>>

\* The data channel changes only by an Emit that returns nil, which adds its
\* object at the back, or by a receive, which takes the object at the front:
\* nothing is dropped, duplicated or reordered, by Close either.
C40_FifoSteps ==
  /\ (\E e \in EmitCallers : EmitReturns(e) /\ emit'[e].result = "nil") => EnqueuesLast
  /\ ch' # ch => (EnqueuesLast \/ ReceivesFirst)

\* What is in the data channel can be received, closed or not, and never
\* holds more than the buffer.
C40_Receivable ==
  /\ (ch # <<>> /\ ePanic = "") => ENABLED ChanReceive
  /\ Len(ch) <= ChanCap

\* C40: every object for which Emit returned nil can be received from the
\* emitter's channel exactly once, in the order in which the Emit calls
\* returned, none dropped or duplicated, including an object enqueued just
\* before or concurrently with Close: it remains receivable after the
\* channel is closed.
C40_EmittedIsReceivedOnce ==
  /\ [][C40_FifoSteps]_vars
  /\ []C40_Receivable

\* An Emit that was in its call when Close was called has returned nil, Close
\* has closed the data channel, and the object is still in it.
C40_Witness ==
  \E e \in EmitCallers :
    /\ emit[e].pc = "returned" /\ emit[e].result = "nil"
    /\ ch = <<ObjectOf(e)>>
    /\ chClosed
    /\ \A c \in CloseCallers : closer[c] = "returned"
    /\ ePanic = ""

(***************************************************************************)
(* The planner (src/client/plan/planner.go): Generate with and without a   *)
(* server snapshot.  A range over a Go map visits the keys in any order.   *)
(***************************************************************************)

\* An op the planner does not know (the zero value of ops.Op).
OpUnknown == ""
PlanOps == {OpCreated, OpModified, OpRemoved, OpUnknown}

\* File contents, their size and their SHA-256 as the indexer computes them
\* (hex(sha256), the function the server applies to a body).
Contents == {"a", "bb"}
SizeOf(content) == Len(content)
SHA256Of(content) == SHA256(content)

\* The index entry of a path (index.FileMetadata) and the server's entry of
\* a key (restapi.File).
LocalFile(path, content, op) ==
  [Path |-> path, Size |-> SizeOf(content), SHA256 |-> SHA256Of(content), MTime |-> 1,
   Op |-> op, Timestamp |-> 1]
File(key, content) ==
  [Key |-> key, Size |-> SizeOf(content), SHA256Checksum |-> SHA256Of(content)]

\* The local snapshots (map[string]*index.FileMetadata, keyed by md.Path)
\* and the server snapshots (map[string]*restapi.File, possibly nil).
LocalSnapshots ==
  UNION {{f \in [D -> [Path : Paths, Size : {SizeOf(c) : c \in Contents},
                       SHA256 : {SHA256Of(c) : c \in Contents}, MTime : {1},
                       Op : PlanOps, Timestamp : {1}]] :
            \A k \in D : \E c \in Contents, op \in PlanOps : f[k] = LocalFile(k, c, op)} :
         D \in SUBSET Paths}
ServerMaps ==
  UNION {{f \in [D -> [Key : Paths, Size : {SizeOf(c) : c \in Contents},
                       SHA256Checksum : {SHA256Of(c) : c \in Contents}]] :
            \A k \in D : \E c \in Contents : f[k] = File(k, c)} :
         D \in SUBSET Paths}
ServerSnapshots == {NilMap} \union {[nil |-> FALSE, m |-> f] : f \in ServerMaps}

uploadRequest(localFile) == [type |-> "upload", fileMetadata |-> localFile]
deleteRequest(filePath) == [type |-> "delete", filePath |-> filePath]

\* A faulty DeleteFunc that removes nothing.
DeleteNothing(path, md) == FALSE

\* Generate is called (planner.go 23-26).
PlannerGenerate(local, server) ==
  /\ plannerPc = "idle"
  /\ localArg' = local
  /\ localSnapshot' = local
  /\ serverSnapshot' = server
  /\ requests' = <<>>
  /\ ranged' = {}
  /\ plannerPc' = IF ~server.nil THEN "deleteFunc" ELSE "switch"
  /\ UNCHANGED notPlannerVars

\* The function generateWithServerSnapshot hands to maps.DeleteFunc.
Removed(path, md) == md.Op = OpRemoved

\* A faulty loop that plans an upload for every entry.
PlannerSwitchUploadsAll(filePath) ==
  /\ plannerPc = "switch"
  /\ filePath \in DOMAIN localSnapshot \ ranged
  /\ requests' = Append(requests, uploadRequest(localSnapshot[filePath]))
  /\ ranged' = ranged \union {filePath}
  /\ UNCHANGED <<localSnapshot, serverSnapshot, plannerPc, localArg, notPlannerVars>>

\* One iteration of the loop without a server snapshot (planner.go 30-47).
PlannerSwitch(filePath) ==
  /\ plannerPc = "switch"
  /\ filePath \in DOMAIN localSnapshot \ ranged
  /\ LET localFile == localSnapshot[filePath] IN
       requests' =
         CASE localFile.Op \in {OpCreated, OpModified} ->
                Append(requests, uploadRequest(localFile))
           [] localFile.Op = OpRemoved -> Append(requests, deleteRequest(filePath))
           [] OTHER -> requests
  /\ ranged' = ranged \union {filePath}
  /\ UNCHANGED <<localSnapshot, serverSnapshot, plannerPc, localArg, notPlannerVars>>

\* generateWithServerSnapshot removes the removed entries from the local
\* snapshot (planner.go 59-61).
PlannerDeleteFunc ==
  /\ plannerPc = "deleteFunc"
  /\ localSnapshot' = [k \in {x \in DOMAIN localSnapshot : ~Removed(x, localSnapshot[x])}
                        |-> localSnapshot[k]]
  /\ plannerPc' = "range"
  /\ UNCHANGED <<serverSnapshot, requests, ranged, localArg, notPlannerVars>>

\* One iteration of the loop over the local snapshot (planner.go 63-78).
PlannerRangeLocal(fileName) ==
  /\ plannerPc = "range"
  /\ fileName \in DOMAIN localSnapshot \ ranged
  /\ LET localFile == localSnapshot[fileName] IN
       requests' =
         IF localFile.Op # OpCreated /\ localFile.Op # OpModified
           THEN requests
           ELSE IF \/ fileName \notin DOMAIN serverSnapshot.m
                   \/ localFile.SHA256 # serverSnapshot.m[fileName].SHA256Checksum
                  THEN Append(requests, uploadRequest(localFile))
                  ELSE requests
  /\ ranged' = ranged \union {fileName}
  /\ UNCHANGED <<localSnapshot, serverSnapshot, plannerPc, localArg, notPlannerVars>>

\* The first loop is over: the second one starts (planner.go 79).
PlannerRangeServerBegin ==
  /\ plannerPc = "range"
  /\ ranged = DOMAIN localSnapshot
  /\ ranged' = {}
  /\ plannerPc' = "rangeServer"
  /\ UNCHANGED <<localSnapshot, serverSnapshot, requests, localArg, notPlannerVars>>

\* One iteration of the loop over the server snapshot (planner.go 79-86).
PlannerRangeServer(filePath) ==
  /\ plannerPc = "rangeServer"
  /\ filePath \in DOMAIN serverSnapshot.m \ ranged
  /\ requests' = IF filePath \notin DOMAIN localSnapshot
                   THEN Append(requests, deleteRequest(filePath))
                   ELSE requests
  /\ ranged' = ranged \union {filePath}
  /\ UNCHANGED <<localSnapshot, serverSnapshot, plannerPc, localArg, notPlannerVars>>

\* Generate returns the plan (planner.go 49-51, 88-90).
PlannerReturn ==
  /\ \/ plannerPc = "switch" /\ ranged = DOMAIN localSnapshot
     \/ plannerPc = "rangeServer" /\ ranged = DOMAIN serverSnapshot.m
  /\ plannerPc' = "returned"
  /\ UNCHANGED <<localSnapshot, serverSnapshot, requests, ranged, localArg, notPlannerVars>>

PlannerNext ==
  \/ \E local \in LocalSnapshots, server \in ServerSnapshots : PlannerGenerate(local, server)
  \/ \E filePath \in Paths : PlannerSwitch(filePath)
  \/ PlannerDeleteFunc
  \/ \E fileName \in Paths : PlannerRangeLocal(fileName)
  \/ PlannerRangeServerBegin
  \/ \E filePath \in Paths : PlannerRangeServer(filePath)
  \/ PlannerReturn

PlannerSpec == Init /\ [][PlannerNext]_vars

(***************************************************************************)
(* Claims about the planner.                                               *)
(***************************************************************************)

\* The plan holds exactly one Upload(md) for every md in uploads, exactly
\* one Delete(key) for every key in deletes, and nothing else.
PlanIs(uploads, deletes) ==
  /\ \A md \in uploads :
       Cardinality({i \in 1..Len(requests) : requests[i] = uploadRequest(md)}) = 1
  /\ \A key \in deletes :
       Cardinality({i \in 1..Len(requests) : requests[i] = deleteRequest(key)}) = 1
  /\ Len(requests) = Cardinality(uploads) + Cardinality(deletes)

\* The local entries, of the ops given, that the server lacks or holds with
\* another checksum.
ToUpload(planOps) ==
  {localArg[k] : k \in {x \in DOMAIN localArg :
     /\ localArg[x].Op \in planOps
     /\ \/ x \notin DOMAIN serverSnapshot.m
        \/ localArg[x].SHA256 # serverSnapshot.m[x].SHA256Checksum}}

\* The server keys with no non-removed local entry.
ToDelete ==
  {k \in DOMAIN serverSnapshot.m : k \notin DOMAIN localArg \/ localArg[k].Op = OpRemoved}

WithServerSnapshot == plannerPc = "returned" /\ ~serverSnapshot.nil

\* C25: with a server snapshot, the plan contains Upload(md) for exactly
\* the local entries that are not Removed and whose key is absent on the
\* server or whose checksum differs, Delete(key) for exactly the server keys
\* that have no non-removed local entry, and nothing else.
C25_PlanWithServerSnapshot ==
  WithServerSnapshot => PlanIs(ToUpload(PlanOps \ {OpRemoved}), ToDelete)

\* C25 (amended): with a server snapshot, the plan contains Upload(md) for
\* exactly the local entries whose op is Created or Modified and whose key
\* is absent on the server or whose checksum differs, Delete(key) for
\* exactly the server keys that have no non-removed local entry, and nothing
\* else; a local entry with any other op gets no request.
C25_PlanOfCreatedAndModified ==
  WithServerSnapshot => PlanIs(ToUpload({OpCreated, OpModified}), ToDelete)

\* A plan made against a server snapshot that holds an upload and the
\* deletion of a key removed locally.
C25_Witness ==
  /\ WithServerSnapshot
  /\ \E k \in DOMAIN localArg : localArg[k].Op = OpRemoved /\ deleteRequest(k) \in Range(requests)
  /\ \E k \in DOMAIN localArg : uploadRequest(localArg[k]) \in Range(requests)

\* C26: without a server snapshot, the plan contains exactly one Upload(md)
\* for every local entry whose op is Created or Modified, exactly one
\* Delete(path) for every entry whose op is Removed, and no request for an
\* entry with any other op.
C26_PlanWithoutServerSnapshot ==
  (plannerPc = "returned" /\ serverSnapshot.nil) =>
    PlanIs({localArg[k] : k \in {x \in DOMAIN localArg :
                                   localArg[x].Op \in {OpCreated, OpModified}}},
           {k \in DOMAIN localArg : localArg[k].Op = OpRemoved})

\* A plan made without a server snapshot that deletes one path and drops an
\* entry of an unknown op.
C26_Witness ==
  /\ plannerPc = "returned" /\ serverSnapshot.nil
  /\ \E k \in DOMAIN localArg : localArg[k].Op = OpRemoved
  /\ \E k \in DOMAIN localArg : localArg[k].Op = OpUnknown
  /\ Len(requests) = 1

(***************************************************************************)
(* The initial sync: the local index against the server's snapshot, the    *)
(* plan, and the requests applied to the server (syncpipeline, plan.go     *)
(* 51-103, rest.go, file_server.go, upload_server.go).  A handler is one   *)
(* step here: it runs from the request to the response.                    *)
(***************************************************************************)

\* unicode.IsSpace on the characters of the model's keys.
WhiteSpace == {" "}

\* strings.TrimSpace: leading and trailing white space is cut.
RECURSIVE TrimSpace(_)
TrimSpace(str) ==
  IF Len(str) > 0 /\ SubSeq(str, 1, 1) \in WhiteSpace
    THEN TrimSpace(SubSeq(str, 2, Len(str)))
  ELSE IF Len(str) > 0 /\ SubSeq(str, Len(str), Len(str)) \in WhiteSpace
    THEN TrimSpace(SubSeq(str, 1, Len(str) - 1))
  ELSE str

\* The key DeleteFile works on (file_server.go 115).
DeleteKey(reqKey) == TrimSpace(reqKey)

\* The paths of the client's tree and the keys of the server: a file name and
\* the same name followed by a space.
SyncPaths == <<"p1", "p1 ">>

\* The index after the tree was indexed: a removal carries no metadata
\* (index.go 80-87), another op the file's size and checksum.
IndexedFile(path, content, op) ==
  IF op = OpRemoved
    THEN [NoMD EXCEPT !.Path = path, !.Op = op, !.Timestamp = 1]
    ELSE LocalFile(path, content, op)
IndexedSnapshots ==
  UNION {{[k \in D |-> IndexedFile(k, c[k], op[k])] :
            c \in [D -> Contents], op \in [D -> {OpCreated, OpRemoved}]} :
         D \in SUBSET Range(SyncPaths)}

\* A server that completed an upload of some of the keys: the n-th key's
\* object has the n-th object id.
CompletedObject(n, content) ==
  [Key |-> SyncPaths[n], ObjectID |-> mustUUIDV7(n), SHA256Checksum |-> SHA256(content),
   Size |-> Len(content), CompletedAt |-> TRUE]
ServerWith(N, c) ==
  /\ keyToObjectMetadata = [k \in {SyncPaths[n] : n \in N} |->
       CompletedObject(CHOOSE n \in N : SyncPaths[n] = k,
                       c[CHOOSE n \in N : SyncPaths[n] = k])]
  /\ blobs = [id \in {mustUUIDV7(n) : n \in N} |->
       c[CHOOSE n \in N : mustUUIDV7(n) = id]]
  /\ nextID = Len(SyncPaths)
  /\ keyToInflightUploads = EmptyMap
  /\ mu = Unlocked
  /\ ch = <<>>
  /\ h = [t \in Handlers |-> Idle]
  /\ janitor = NoObj
  /\ emitted = <<>>
  /\ retired = <<>>
  /\ received = <<>>
  /\ deleteCalls = <<>>
  /\ gaveUp = FALSE
  /\ returned = NoReturn

SyncInit ==
  /\ \E N \in SUBSET (1..Len(SyncPaths)) : \E c \in [N -> Contents] : ServerWith(N, c)
  /\ PsurlsIdle /\ New /\ ClientInit /\ NewEmitter /\ NewPlanner /\ NewSyncer /\ NewWalker /\ NewAuth /\ NewWatcher /\ NewBaseline /\ NewPipeline

\* GET /v1/snapshot: FileServer.Snapshot over MetadataStore.Snapshot, decoded
\* by the client into a map of File (file_server.go 90-110, rest.go 50-85).
GetSnapshot ==
  LET snap == Snapshot(keyToObjectMetadata)
  IN [nil |-> FALSE,
      m |-> [k \in DOMAIN snap |->
               [Key |-> k, Size |-> snap[k].Size,
                SHA256Checksum |-> snap[k].SHA256Checksum]]]

\* The response of a handler, for whoever looks at it next.
Responds(kind, key, result, statuses, pre, emits) ==
  returned' = [NoReturn EXCEPT !.kind = kind, !.key = key, !.result = result,
                               !.statuses = statuses, !.pre = pre, !.emits = emits]

\* FileServer.DeleteFile with MetadataStore.Delete for a request naming reqKey;
\* ctxDone: the request's context ends while Emit waits for room.
DeleteFile(reqKey, ctxDone) ==
  /\ mu = Unlocked
  /\ LET key == DeleteKey(reqKey) IN
       IF key = ""
         THEN /\ Responds("delete", reqKey, "bad_request", <<400>>, NoObj, <<>>)
              /\ UNCHANGED <<keyToObjectMetadata, ch, emitted, retired>>
       ELSE IF key \notin DOMAIN keyToObjectMetadata
         THEN /\ Responds("delete", reqKey, "ok", <<200>>, NoObj, <<>>)
              /\ UNCHANGED <<keyToObjectMetadata, ch, emitted, retired>>
       ELSE IF ctxDone
         THEN /\ Len(ch) = ChanCap
              /\ Responds("delete", reqKey, "emit_err", <<500>>, Completed(key), <<>>)
              /\ UNCHANGED <<keyToObjectMetadata, ch, emitted, retired>>
       ELSE /\ Len(ch) < ChanCap
            /\ ch' = Append(ch, Completed(key))
            /\ emitted' = Append(emitted, Completed(key))
            /\ keyToObjectMetadata' = DeleteCompleted(keyToObjectMetadata, key)
            /\ retired' = Append(retired, Completed(key))
            /\ Responds("delete", reqKey, "ok", <<200>>, Completed(key), <<Completed(key)>>)
  /\ UNCHANGED <<keyToInflightUploads, mu, blobs, h, nextID, janitorVars>>

\* UploadFile for a request that is authorised and whose Content-Length is
\* the size in its URL (upload_server.go 78-132), with the store's Create and
\* PutObjectCompleted and the storage's PutObject.
UploadFile(urlData, body, ctxDone) ==
  /\ mu = Unlocked
  /\ LET objectID == mustUUIDV7(nextID + 1)
         md == [Key |-> urlData.ObjectKey, ObjectID |-> objectID,
                SHA256Checksum |-> urlData.SHA256Checksum, Size |-> urlData.Size,
                CompletedAt |-> FALSE]
         created == Create(keyToInflightUploads, md)
         res == PutObjectResult(body, TRUE, FALSE)
         key == urlData.ObjectKey
     IN /\ CreateErr(md) = ""
        /\ nextID' = nextID + 1
        /\ blobs' = MapPut(blobs, objectID, body)
        /\ IF urlData.SHA256Checksum # res.checksum
             THEN /\ Responds("upload", key, "checksum_mismatch", <<400>>, NoObj, <<>>)
                  /\ keyToInflightUploads' = created
                  /\ UNCHANGED <<keyToObjectMetadata, ch, emitted, retired>>
           ELSE IF urlData.Size # res.written
             THEN /\ Responds("upload", key, "size_mismatch", <<400>>, NoObj, <<>>)
                  /\ keyToInflightUploads' = created
                  /\ UNCHANGED <<keyToObjectMetadata, ch, emitted, retired>>
           ELSE IF key \in DOMAIN keyToObjectMetadata /\ ctxDone
             THEN /\ Len(ch) = ChanCap
                  /\ Responds("upload", key, "emit_err", <<500, 201>>, Completed(key), <<>>)
                  /\ keyToInflightUploads' = created
                  /\ UNCHANGED <<keyToObjectMetadata, ch, emitted, retired>>
           ELSE /\ key \in DOMAIN keyToObjectMetadata => Len(ch) < ChanCap
                /\ ch' = IF key \in DOMAIN keyToObjectMetadata
                           THEN Append(ch, Completed(key)) ELSE ch
                /\ emitted' = IF key \in DOMAIN keyToObjectMetadata
                                THEN Append(emitted, Completed(key)) ELSE emitted
                /\ retired' = IF key \in DOMAIN keyToObjectMetadata
                                THEN Append(retired, Completed(key)) ELSE retired
                /\ keyToObjectMetadata' =
                     Promote(keyToObjectMetadata, key, FindInflight(created[key], objectID))
                /\ keyToInflightUploads' = RemoveInflight(created, key, objectID)
                /\ Responds("upload", key, "ok", <<201>>, Completed(key),
                            IF key \in DOMAIN keyToObjectMetadata
                              THEN <<Completed(key)>> ELSE <<>>)
  /\ UNCHANGED <<mu, h, janitorVars>>

\* The client has indexed its tree, fetched the server's snapshot and calls
\* the planner with both (SnapshotSource.Next, Syncer.PlanGenerator).
SyncGenerate(local) == PlannerGenerate(local, GetSnapshot)

\* The planned requests not yet applied; none once the process panicked.
ToApply ==
  IF plannerPc = "returned" /\ \A i \in DOMAIN applied : applied[i] # "panic"
    THEN (1..Len(requests)) \ DOMAIN applied
    ELSE {}

\* What Apply returns for the response it got.
ApplyResult(statuses) == IF Head(statuses) \in {200, 201} THEN "ok" ELSE "err"

\* uploadRequest.Apply (plan.go 51-86) with Client.Upload: the file is opened
\* (a file that is gone is logged through the request's logger, which the
\* planner never sets), the URL is made from the index entry, and the file as
\* it is now is sent with the entry's size as its Content-Length.
ApplyUpload(i, opened, body, ctxDone) ==
  /\ i \in ToApply
  /\ requests[i].type = "upload"
  /\ LET md == requests[i].fileMetadata
         urlData == [NoURLData EXCEPT !.ObjectKey = md.Path, !.SHA256Checksum = md.SHA256,
                                      !.Size = md.Size, !.MTime = md.MTime]
     IN IF ~opened
          THEN /\ applied' = MapPut(applied, i, "panic")
               /\ UNCHANGED serverVars
        ELSE IF Len(body) # md.Size
          THEN /\ applied' = MapPut(applied, i, "err")
               /\ UNCHANGED serverVars
        ELSE /\ UploadFile(urlData, body, ctxDone)
             /\ applied' = MapPut(applied, i, ApplyResult(returned'.statuses))
  /\ UNCHANGED notServerSyncVars

\* deleteRequest.Apply (plan.go 96-103) with Client.Delete.
ApplyDelete(i, ctxDone) ==
  /\ i \in ToApply
  /\ requests[i].type = "delete"
  /\ DeleteFile(requests[i].filePath, ctxDone)
  /\ applied' = MapPut(applied, i, ApplyResult(returned'.statuses))
  /\ UNCHANGED notServerSyncVars

SyncNext ==
  \/ \E local \in IndexedSnapshots : SyncGenerate(local)
  \/ PlannerDeleteFunc
  \/ \E fileName \in Range(SyncPaths) : PlannerRangeLocal(fileName)
  \/ PlannerRangeServerBegin
  \/ \E filePath \in Range(SyncPaths) : PlannerRangeServer(filePath)
  \/ PlannerReturn
  \/ \E i \in 1..Len(SyncPaths), opened \in BOOLEAN, body \in Contents, ctxDone \in BOOLEAN :
       ApplyUpload(i, opened, body, ctxDone)
  \/ \E i \in 1..Len(SyncPaths), ctxDone \in BOOLEAN : ApplyDelete(i, ctxDone)
  \/ JanitorReceive
  \/ \E ok \in BOOLEAN : JanitorCleanup(ok)

SyncSpec == SyncInit /\ [][SyncNext]_vars

\* The keys a DELETE request can name: none, white space, and the keys of the
\* server.
DeleteKeys == {"", " "} \union Range(SyncPaths)

\* DELETE /v1/files/{key} from any client.
DeleteFileRequest(reqKey, ctxDone) ==
  /\ DeleteFile(reqKey, ctxDone)
  /\ UNCHANGED libVars

FileServerNext ==
  \/ \E reqKey \in DeleteKeys, ctxDone \in BOOLEAN : DeleteFileRequest(reqKey, ctxDone)
  \/ JanitorReceive
  \/ \E ok \in BOOLEAN : JanitorCleanup(ok)

FileServerSpec == SyncInit /\ [][FileServerNext]_vars

(***************************************************************************)
(* Claims about the initial sync and the DeleteFile handler.               *)
(***************************************************************************)

\* Every planned request has been applied and every Apply got a 2xx.
AllApplied ==
  /\ plannerPc = "returned"
  /\ DOMAIN applied = 1..Len(requests)
  /\ \A i \in DOMAIN applied : applied[i] = "ok"

\* The snapshot the client expects: its non-removed indexed keys with the
\* size and checksum the indexer computed.
IndexedFiles ==
  [k \in {x \in DOMAIN localArg : localArg[x].Op # OpRemoved} |->
     [Key |-> k, Size |-> localArg[k].Size, SHA256Checksum |-> localArg[k].SHA256]]

\* C27: initial sync converges: from any server state, once the client has
\* indexed its tree and the plan generated against the server snapshot has
\* been applied with every request succeeding, the server snapshot contains
\* exactly the client's non-removed indexed keys, each with the size and
\* SHA-256 the indexer computed.
C27_InitialSyncConverges == AllApplied => GetSnapshot.m = IndexedFiles

\* A DeleteFile call naming reqKey returns in this step.
DeleteFileReturns(reqKey) ==
  /\ returned'.kind = "delete" /\ returned'.key = reqKey
  /\ <<returned, keyToObjectMetadata>>' # <<returned, keyToObjectMetadata>>

\* The store was not called, or was and did nothing.
StoreUntouched == UNCHANGED <<keyToObjectMetadata, keyToInflightUploads, ch, emitted>>

\* An empty or white-space key is a 400 that leaves the store alone; a store
\* error is a 500; anything else is a 200.
C29_Statuses ==
  \A reqKey \in DeleteKeys : DeleteFileReturns(reqKey) =>
    /\ TrimSpace(reqKey) = "" => returned'.statuses = <<400>> /\ StoreUntouched
    /\ returned'.result = "emit_err" => returned'.statuses = <<500>>
    /\ (TrimSpace(reqKey) # "" /\ returned'.result # "emit_err") =>
         returned'.statuses = <<200>>

\* A DELETE of a key that has no completed entry emits nothing and leaves
\* the store as it is.
C29_AbsentKeyIsNoOp ==
  \A reqKey \in DeleteKeys : DeleteFileReturns(reqKey) =>
    (reqKey \notin DOMAIN keyToObjectMetadata => StoreUntouched)

\* C29: DELETE /v1/files/{key}: an empty (or whitespace-only) key yields 400
\* without calling the store; a store error yields 500; otherwise the
\* response is 200, including when the key has no completed entry, in which
\* case no deletion event is emitted and the store is unchanged.
C29_DeleteFile == [][C29_Statuses /\ C29_AbsentKeyIsNoOp]_vars

(***************************************************************************)
(* The walker (src/client/filesystem/walker.go): filepath.WalkDir over a   *)
(* tree, each directory read in lexical order.  A path is the sequence of  *)
(* its elements.                                                           *)
(***************************************************************************)

\* The names of the entries of the root and of its sub-directories, in
\* lexical order, and the roots Walk is called with.
RootNames == <<".h", "a", "t~">>
SubNames == <<".g", "b">>
RootDirs == {".", "r"}
EntryKinds == {"dir", "file", "symlink"}

\* The trees: a root directory, entries of any kind in it, and entries in
\* each of its sub-directories.
TreeOf(root, top, sub) ==
  LET dirs == {n \in Range(RootNames) : top[n] = "dir"}
      paths == {<<root>>} \union {<<root, n>> : n \in {x \in Range(RootNames) : top[x] # "none"}}
                 \union {<<root, n, m>> : n \in dirs, m \in Range(SubNames)}
  IN [path \in {x \in paths : Len(x) = 3 => sub[x[2]][x[3]] # "none"} |->
        IF Len(path) = 1 THEN "dir"
        ELSE IF Len(path) = 2 THEN top[path[2]]
        ELSE sub[path[2]][path[3]]]
Trees(root) ==
  {TreeOf(root, top, sub) :
     top \in [Range(RootNames) -> EntryKinds \union {"none"}],
     sub \in [Range(RootNames) -> [Range(SubNames) -> {"dir", "file", "none"}]]}

\* filepath.Base, strings.HasSuffix(path, "~") and strings.HasPrefix(name, ".").
Base(path) == path[Len(path)]
HasSuffix(path, suffix) ==
  /\ Len(Base(path)) >= Len(suffix)
  /\ SubSeq(Base(path), Len(Base(path)) - Len(suffix) + 1, Len(Base(path))) = suffix
HasPrefix(name, prefix) ==
  Len(name) >= Len(prefix) /\ SubSeq(name, 1, Len(prefix)) = prefix

\* d.IsDir() and d.Type().IsRegular().
IsDir(path) == tree[path] = "dir"
IsRegular(path) == tree[path] = "file"

\* os.ReadDir of a directory: its entries sorted by name.
ReadDir(path) ==
  LET names == IF Len(path) = 1 THEN RootNames ELSE SubNames
      all == [i \in 1..Len(names) |-> Append(path, names[i])]
  IN SelectSeq(all, LAMBDA child : child \in DOMAIN tree)

\* The test of walker.go 44: the path ends in "~".
IsTemp(path) == HasSuffix(path, "~")

\* What the function handed to WalkDir does with an entry (walker.go 39-88).
WalkFunc(path) ==
  IF IsTemp(path) THEN "nil"
  ELSE IF Base(path) # "." /\ HasPrefix(Base(path), ".")
    THEN IF IsDir(path) THEN "SkipDir" ELSE "nil"
  ELSE IF IsDir(path) THEN "Add"
  ELSE IF ~IsRegular(path) THEN "nil"
  ELSE "Append"

\* Walk is called on a tree (walker.go 30-39).
WalkStart(t, root) ==
  /\ walkPc = "idle"
  /\ tree' = t
  /\ rootDir' = root
  /\ todo' = <<<<root>>>>
  /\ watched' = <<>>
  /\ fileOps' = <<>>
  /\ walkPc' = "walking"
  /\ UNCHANGED notWalkerVars

\* WalkDir visits the next entry: the function is called, it registers a
\* directory or appends a Created op (either can fail, which ends the walk),
\* and a directory not skipped is read.
WalkVisit(ok) ==
  /\ walkPc = "walking"
  /\ todo # <<>>
  /\ LET path == Head(todo)
         do == WalkFunc(path)
     IN /\ ok \/ do \in {"Add", "Append"}
        /\ watched' = IF do = "Add" /\ ok THEN Append(watched, path) ELSE watched
        /\ fileOps' = IF do = "Append" /\ ok
                        THEN Append(fileOps, [Path |-> path, Op |-> OpCreated])
                        ELSE fileOps
        /\ IF ~ok
             THEN walkPc' = "failed" /\ UNCHANGED todo
             ELSE /\ todo' = IF IsDir(path) /\ do # "SkipDir"
                               THEN ReadDir(path) \o Tail(todo)
                               ELSE Tail(todo)
                  /\ UNCHANGED walkPc
  /\ UNCHANGED <<tree, rootDir, notWalkerVars>>

\* WalkDir returns nil (walker.go 89-92).
WalkReturn ==
  /\ walkPc = "walking"
  /\ todo = <<>>
  /\ walkPc' = "done"
  /\ UNCHANGED <<tree, rootDir, todo, watched, fileOps, notWalkerVars>>

WalkNext ==
  \/ \E root \in RootDirs : \E t \in Trees(root) : WalkStart(t, root)
  \/ \E ok \in BOOLEAN : WalkVisit(ok)
  \/ WalkReturn

WalkSpec == Init /\ [][WalkNext]_vars

(***************************************************************************)
(* Claims about the walker.                                                *)
(***************************************************************************)

Hidden(name) == name # "." /\ HasPrefix(name, ".")

\* The path is a hidden entry or lies below a hidden directory.
AtOrBelowHidden(path) == \E i \in 1..Len(path) : Hidden(path[i])
BelowHidden(path) == \E i \in 1..(Len(path) - 1) : Hidden(path[i])

\* Each element of the set occurs exactly once in the sequence, and nothing
\* else does.
ExactlyOnce(seq, set) ==
  /\ Range(seq) = set
  /\ Len(seq) = Cardinality(set)

\* C28: Walk registers with the watcher exactly the non-hidden directories
\* of the tree (the root included, nothing at or below a hidden directory)
\* and emits exactly one Created file-op for each regular file whose name
\* neither starts with '.' nor ends with '~' (and that is not below a hidden
\* directory); it emits nothing for symlinks and other non-regular files,
\* hidden files or temp files.
C28_Walk ==
  walkPc = "done" =>
    /\ ExactlyOnce(watched, {path \in DOMAIN tree : IsDir(path) /\ ~AtOrBelowHidden(path)})
    /\ ExactlyOnce(fileOps,
         {[Path |-> path, Op |-> OpCreated] :
            path \in {x \in DOMAIN tree :
                        /\ IsRegular(x)
                        /\ ~Hidden(Base(x)) /\ ~HasSuffix(x, "~")
                        /\ ~BelowHidden(x)}})

(***************************************************************************)
(* The access-key store (package auth, access_keys_test.go 76-134).        *)
(***************************************************************************)

\* The number of GenerateAccessKey calls.
MaxKeys == 3

\* A faulty encoding that keeps too little of the random bytes.
base32Short(n) == "AK" \o ToString(n % 2)

\* base32 of 12 bytes from crypto/rand, cut to its 20 characters before the
\* padding: the n-th draw differs from every draw before it.
base32ID(n) == "AK" \o ToString(n)

\* base64 of 30 random bytes, 40 characters.
base64Secret(n) == "SK" \o ToString(n)

\* The ids a caller may ask for: those that can be generated and one that
\* never is.
KeyIDs == {base32ID(n) : n \in 1..MaxKeys} \union {"not-there"}

\* GenerateAccessKey draws the id and the secret (lines 106-116).
GenerateRand(g) ==
  /\ gen[g].pc = "idle"
  /\ randReads < MaxKeys
  /\ randReads' = randReads + 1
  /\ gen' = [gen EXCEPT ![g] = [pc |-> "lock", id |-> base32ID(randReads + 1),
                                secret |-> base64Secret(randReads + 1)]]
  /\ UNCHANGED <<authM, authMu, get, generated, notAuthVars>>

\* auth.mu.Lock() (line 118).
GenerateLock(g) ==
  /\ gen[g].pc = "lock"
  /\ authMu.writer = "" /\ authMu.readers = {}
  /\ authMu' = [authMu EXCEPT !.writer = g]
  /\ gen' = [gen EXCEPT ![g].pc = "store"]
  /\ UNCHANGED <<authM, get, randReads, generated, notAuthVars>>

\* auth.m[id] = secret; auth.mu.Unlock() (lines 119-120).
GenerateStore(g) ==
  /\ gen[g].pc = "store"
  /\ authM' = MapPut(authM, gen[g].id, gen[g].secret)
  /\ authMu' = [authMu EXCEPT !.writer = ""]
  /\ gen' = [gen EXCEPT ![g].pc = "return"]
  /\ UNCHANGED <<get, randReads, generated, notAuthVars>>

\* GenerateAccessKey returns the pair (lines 122-125).
GenerateReturn(g) ==
  /\ gen[g].pc = "return"
  /\ generated' = generated \union {[AccessKeyID |-> gen[g].id, SecretKey |-> gen[g].secret]}
  /\ gen' = [gen EXCEPT ![g] = NoGen]
  /\ UNCHANGED <<authM, authMu, get, randReads, notAuthVars>>

\* GetSecretKeyByID(keyID) is called: auth.mu.RLock() (lines 128-129).
GetRLock(r, keyID) ==
  /\ get[r].pc \in {"idle", "returned"}
  /\ authMu.writer = ""
  /\ authMu' = [authMu EXCEPT !.readers = @ \union {r}]
  /\ get' = [get EXCEPT ![r] = [NoGet EXCEPT !.pc = "read", !.keyID = keyID,
                                             !.known = generated]]
  /\ UNCHANGED <<authM, gen, randReads, generated, notAuthVars>>

\* secret, ok := auth.m[keyID]; RUnlock; return (lines 130-133).
GetRead(r) ==
  /\ get[r].pc = "read"
  /\ get' = [get EXCEPT ![r].pc = "returned",
                        ![r].ok = (get[r].keyID \in DOMAIN authM),
                        ![r].secret = IF get[r].keyID \in DOMAIN authM
                                        THEN authM[get[r].keyID] ELSE ""]
  /\ authMu' = [authMu EXCEPT !.readers = @ \ {r}]
  /\ UNCHANGED <<authM, gen, randReads, generated, notAuthVars>>

AuthNext ==
  \/ \E g \in Generators : GenerateRand(g)
  \/ \E g \in Generators : GenerateLock(g)
  \/ \E g \in Generators : GenerateStore(g)
  \/ \E g \in Generators : GenerateReturn(g)
  \/ \E r \in Getters, keyID \in KeyIDs : GetRLock(r, keyID)
  \/ \E r \in Getters : GetRead(r)

AuthSpec == Init /\ [][AuthNext]_vars

(***************************************************************************)
(* Claims about the access-key store.                                      *)
(***************************************************************************)

\* The ids some GenerateAccessKey call has drawn, returned or not.
Drawn == DOMAIN authM \union {gen[g].id : g \in {x \in Generators : gen[x].pc # "idle"}}

\* A GetSecretKeyByID call that returned: an id generated before the call
\* gives the secret of its generation, an id never generated gives ("", false).
C30_GetReturnsTheSecret ==
  \A r \in Getters : get[r].pc = "returned" =>
    /\ \A ak \in get[r].known :
         ak.AccessKeyID = get[r].keyID => get[r].ok /\ get[r].secret = ak.SecretKey
    /\ get[r].keyID \notin Drawn => ~get[r].ok /\ get[r].secret = ""

\* Every generated pair is stored.
C30_GeneratedAreStored ==
  \A ak \in generated :
    ak.AccessKeyID \in DOMAIN authM /\ authM[ak.AccessKeyID] = ak.SecretKey

\* A stored pair stays as it is.
C30_PairsStay ==
  \A id \in DOMAIN authM : id \in DOMAIN authM' /\ authM'[id] = authM[id]

\* C30: after any sequence of GenerateAccessKey calls (possibly concurrent),
\* GetSecretKeyByID(id) returns (secret, true) with the secret of the
\* generation that produced id for every generated id, and ("", false) for
\* every id that was never generated; stored pairs are never altered or
\* removed.
C30_KeyStore ==
  /\ [](C30_GetReturnsTheSecret /\ C30_GeneratedAreStored)
  /\ [][C30_PairsStay]_vars

\* Three keys generated, one call that got the secret of the second and one
\* that asked for an id never generated.
C30_Witness ==
  /\ Cardinality(generated) = MaxKeys
  /\ \E r \in Getters :
       /\ get[r].pc = "returned" /\ get[r].ok
       /\ [AccessKeyID |-> get[r].keyID, SecretKey |-> get[r].secret] \in get[r].known
  /\ \E r \in Getters :
       get[r].pc = "returned" /\ get[r].keyID = "not-there" /\ ~get[r].ok

(***************************************************************************)
(* The watcher and its stage number (watcher.go 172-322, the version that  *)
(* stamps its WAL records) and the Walk that ends the first stage          *)
(* (walker_test.go 157-212).                                               *)
(***************************************************************************)

\* The number of records the watcher appends.
MaxRecords == 3

\* fsnotify's operations and the names events come with (paths, element by
\* element).
FsnotifyOps == {"Create", "Remove", "Rename", "Write"}
EventNames == {<<".h">>, <<"a">>, <<"r", "t~">>}

\* marshalEvent: one Event per operation in the bitmask, in the order of
\* its four tests.
marshalEvent(eventOps) ==
  (IF "Create" \in eventOps THEN <<OpCreated>> ELSE <<>>)
    \o (IF "Remove" \in eventOps THEN <<OpRemoved>> ELSE <<>>)
    \o (IF "Rename" \in eventOps THEN <<OpRemoved>> ELSE <<>>)
    \o (IF "Write" \in eventOps THEN <<OpModified>> ELSE <<>>)

\* The Walk calls that have returned.
WalksReturned == Cardinality({w \in Walkers : walking[w] = "returned"})

\* A faulty Walk that calls IncStageNum at once instead of deferring it.
WalkIncFirst(w) ==
  /\ walking[w] = "idle"
  /\ walking' = [walking EXCEPT ![w] = "WalkDir"]
  /\ watcherStageNum' = watcherStageNum + 1
  /\ UNCHANGED <<watching, stageLog, notWatcherVars>>

\* Walk is called: defer watcher.IncStageNum(), then filepath.WalkDir.
Walk(w) ==
  /\ walking[w] = "idle"
  /\ walking' = [walking EXCEPT ![w] = "WalkDir"]
  /\ UNCHANGED <<watcherStageNum, watching, stageLog, notWatcherVars>>

\* filepath.WalkDir returns, with an error or without.
WalkDirReturns(w) ==
  /\ walking[w] = "WalkDir"
  /\ walking' = [walking EXCEPT ![w] = "deferred"]
  /\ UNCHANGED <<watcherStageNum, watching, stageLog, notWatcherVars>>

\* The deferred call: w.stageNum.Add(1); Walk returns.
IncStageNum(w) ==
  /\ walking[w] = "deferred"
  /\ watcherStageNum' = watcherStageNum + 1
  /\ walking' = [walking EXCEPT ![w] = "returned"]
  /\ UNCHANGED <<watching, stageLog, notWatcherVars>>

\* Start receives an event: hidden and temporary names are ignored, and so
\* are a Create whose Stat fails and a Create of a directory (which is added
\* to the watcher); otherwise the stage number is loaded and the event
\* marshalled.
WatchEvent(name, eventOps, stat) ==
  /\ watching.pc = "select"
  /\ Len(stageLog) < MaxRecords
  /\ watching' =
       IF HasSuffix(name, "~") \/ HasPrefix(name[1], ".") THEN watching
       ELSE IF "Create" \in eventOps /\ stat \in {"err", "dir"} THEN watching
       ELSE [pc |-> "append", stageNum |-> watcherStageNum, walksDone |-> WalksReturned,
             path |-> name, events |-> marshalEvent(eventOps)]
  /\ UNCHANGED <<watcherStageNum, walking, stageLog, notWatcherVars>>

\* One turn of the loop over the marshalled events: w.wal.Append(stageNum,
\* eventBytes).  When Append fails Start returns.
WatchAppend(ok) ==
  /\ watching.pc = "append"
  /\ IF watching.events = <<>>
       THEN watching' = NotWatching /\ UNCHANGED stageLog
       ELSE IF ok
         THEN /\ stageLog' = Append(stageLog,
                   [StageNum |-> watching.stageNum, Operation |-> Head(watching.events),
                    Path |-> watching.path, walksDone |-> watching.walksDone])
              /\ watching' = [watching EXCEPT !.events = Tail(@)]
         ELSE /\ watching' = [NotWatching EXCEPT !.pc = "returned"]
              /\ UNCHANGED stageLog
  /\ UNCHANGED <<watcherStageNum, walking, notWatcherVars>>

WatcherNext ==
  \/ \E w \in Walkers : Walk(w)
  \/ \E w \in Walkers : WalkDirReturns(w)
  \/ \E w \in Walkers : IncStageNum(w)
  \/ \E name \in EventNames, eventOps \in (SUBSET FsnotifyOps) \ {{}},
        stat \in {"err", "dir", "file"} : WatchEvent(name, eventOps, stat)
  \/ \E ok \in BOOLEAN : WatchAppend(ok)

WatcherSpec == Init /\ [][WatcherNext]_vars

(***************************************************************************)
(* Claims about the stage number.                                          *)
(***************************************************************************)

\* The stage number changes only by +1, in the step in which a Walk whose
\* traversal has finished returns.
C33_OnlyIncStageNum ==
  watcherStageNum' # watcherStageNum =>
    /\ watcherStageNum' = watcherStageNum + 1
    /\ \E w \in Walkers : walking[w] = "deferred" /\ walking'[w] = "returned"

\* The stage number counts the Walk calls that have returned: each
\* incremented it once.
C33_OncePerWalk == watcherStageNum = WalksReturned

\* The records in the WAL carry stage numbers that do not decrease, and 0
\* when they were stamped before any Walk had returned.
C33_RecordsInStageOrder ==
  /\ \A i, j \in 1..Len(stageLog) :
       i < j => stageLog[i].StageNum <= stageLog[j].StageNum
  /\ \A i \in 1..Len(stageLog) :
       stageLog[i].walksDone = 0 => stageLog[i].StageNum = 0

MaxClock == 3

\* The Timestamp the walker gives its Created op (walker.go 74).
WalkerTimestamp(now) == now

\* The clock advances.
ClockTick ==
  /\ clock < MaxClock
  /\ clock' = clock + 1
  /\ UNCHANGED <<queued, storedBy, emittedBy, notBaselineVars>>

\* The walker finds the regular file path and appends its Created op.
WalkerAppend(path) ==
  /\ <<path, "walker">> \notin emittedBy
  /\ queued' = queued \union
       {[by |-> "walker",
         op |-> [Path |-> path, Op |-> OpCreated, Timestamp |-> WalkerTimestamp(clock)]]}
  /\ emittedBy' = emittedBy \union {<<path, "walker">>}
  /\ UNCHANGED <<clock, storedBy, notBaselineVars>>

\* The watcher receives an event for path and appends its op, stamped by
\* marshalEvent.
WatcherAppend(path, op) ==
  /\ <<path, "watcher">> \notin emittedBy
  /\ queued' = queued \union
       {[by |-> "watcher", op |-> [Path |-> path, Op |-> op, Timestamp |-> clock]]}
  /\ emittedBy' = emittedBy \union {<<path, "watcher">>}
  /\ UNCHANGED <<clock, storedBy, notBaselineVars>>

\* The metadata stage 2 makes of an op (index.go 74-124).
Extracted(op) ==
  IF op.Op = OpRemoved
    THEN [Path |-> op.Path, Size |-> 0, SHA256 |-> "", MTime |-> 0,
          Op |-> op.Op, Timestamp |-> op.Timestamp]
    ELSE [Path |-> op.Path, Size |-> 1, SHA256 |-> "a", MTime |-> 1,
          Op |-> op.Op, Timestamp |-> op.Timestamp]

\* One call of the sink, from Lock to the deferred Unlock, for an op that
\* has come through the pipeline.
SinkCall(q) ==
  /\ q \in queued
  /\ queued' = queued \ {q}
  /\ LET md == Extracted(q.op)
     IN IF After(index, md)
          THEN UNCHANGED <<index, storedBy>>
          ELSE /\ index' = MapPut(index, md.Path, md)
               /\ storedBy' = MapPut(storedBy, md.Path, q.by)
  /\ UNCHANGED <<clock, emittedBy, idxMu, sinkMD, snapshot, sunk, snapshots, notBaselineIndexVars>>

BaselineNext ==
  \/ ClockTick
  \/ \E path \in Paths : WalkerAppend(path)
  \/ \E path \in Paths, op \in {OpCreated, OpRemoved, OpModified} : WatcherAppend(path, op)
  \/ \E by \in {"walker", "watcher"}, path \in Paths,
        op \in {OpCreated, OpRemoved, OpModified}, t \in 1..MaxClock :
       SinkCall([by |-> by, op |-> [Path |-> path, Op |-> op, Timestamp |-> t]])

BaselineSpec == Init /\ [][BaselineNext]_vars

(***************************************************************************)
(* Claims about the baseline.                                              *)
(***************************************************************************)

\* Every Created op of the walker carries the zero timestamp (0, before
\* every time.Now()).
C34_WalkerStampsZero ==
  \A q \in queued : q.by = "walker" => q.op.Timestamp = 0

\* Once the walker's op and the watcher's event for a path have both
\* reached the sink, the entry stored for the path is the watcher's.
C34_WatcherEventStored ==
  \A path \in Paths :
    (/\ <<path, "walker">> \in emittedBy
     /\ <<path, "watcher">> \in emittedBy
     /\ \A q \in queued : q.op.Path # path)
      => storedBy[path] = "watcher"

\* C34: every synthetic Created op emitted by the walker carries the
\* zero-valued timestamp, so for any path a real watcher event for that path
\* always supersedes the walker's baseline in the index: in whatever order
\* the two reach the sink, the entry finally stored is the watcher event's,
\* never the walker's.
C34_EventSupersedesBaseline ==
  C34_WalkerStampsZero /\ C34_WatcherEventStored

(***************************************************************************)
(* The index pipeline (index.go 51-153): stage 1 decodes the WAL records   *)
(* one after the other, stage 2 and the sink take the decoded ops.  A      *)
(* processor returns (out, drop, err); the pipeline goes on after a drop   *)
(* and ends with the error of a processor that returned one (index.go      *)
(* 94-95, main.go 76-82).                                                  *)
(***************************************************************************)

\* The number of records in the WAL.
MaxWalRecords == 3

\* json.Marshal of a FileOp, and records that are no JSON object.
MarshalFileOp(op) == <<"{", op.Path, op.Op, ToString(op.Timestamp), "}">>
FileOps == [Path : Paths, Op : {OpCreated}, Timestamp : 1..2]
Malformed == {<<"{", "p1">>, <<"x">>}
WalRecords == {MarshalFileOp(op) : op \in FileOps} \union Malformed

\* json.Unmarshal(data, &op).
UnmarshalFileOp(data) ==
  IF Len(data) = 5 /\ data[1] = "{" /\ data[5] = "}"
    THEN [err |-> "",
          op |-> [Path |-> data[2], Op |-> data[3],
                  Timestamp |-> CHOOSE t \in 1..2 : ToString(t) = data[4]]]
    ELSE [err |-> "could not unmarshal WAL data", op |-> NoMD]

\* The processor of stage 1: what it returns for a record.
UnmarshalWALDataProcessor(data) ==
  LET r == UnmarshalFileOp(data)
  IN IF r.err # ""
       THEN [out |-> NoMD, drop |-> FALSE, err |-> r.err]
       ELSE [out |-> r.op, drop |-> FALSE, err |-> ""]

\* The watcher or the walker appends a record to the WAL.
WalRecord(data) ==
  /\ Len(taken) + Len(source) < MaxWalRecords
  /\ source' = Append(source, data)
  /\ UNCHANGED <<taken, pipelineErr, baselineVars, notPipelineBaselineVars>>

\* Stage 1 takes the next record and runs its processor: an error ends the
\* pipeline, a drop is passed over, an op goes on to stage 2.
StageOne ==
  /\ pipelineErr = ""
  /\ source # <<>>
  /\ LET r == UnmarshalWALDataProcessor(Head(source))
     IN /\ pipelineErr' = r.err
        /\ queued' = IF r.err = "" /\ ~r.drop
                       THEN queued \union {[by |-> "watcher", op |-> r.out]}
                       ELSE queued
  /\ taken' = Append(taken, Head(source))
  /\ source' = Tail(source)
  /\ UNCHANGED <<clock, storedBy, emittedBy, notPipelineBaselineVars>>

PipelineNext ==
  \/ \E data \in WalRecords : WalRecord(data)
  \/ StageOne
  \/ \E op \in FileOps : SinkCall([by |-> "watcher", op |-> op])

PipelineSpec == Init /\ [][PipelineNext]_vars

(***************************************************************************)
(* Claims about the index pipeline.                                        *)
(***************************************************************************)

\* A record that cannot be decoded does not end the pipeline.
C35_NotAPipelineFailure == pipelineErr = ""

\* A record that can be decoded and comes after one that cannot is taken by
\* stage 1 and upserted, once everything appended has been worked off.
C35_LaterRecordsIndexed ==
  (source = <<>> /\ queued = {}) =>
    \A i, j \in 1..Len(taken) :
      (i < j /\ taken[i] \in Malformed /\ taken[j] \notin Malformed) =>
        UnmarshalFileOp(taken[j]).op.Path \in DOMAIN index

\* C35: a WAL record that cannot be decoded into a FileOp is dropped by
\* indexer stage 1 and is not a pipeline failure: the indexer keeps running
\* and every later valid record is still decoded, enriched and upserted into
\* the index.
C35_DecodeErrorDropsRecord ==
  C35_NotAPipelineFailure /\ C35_LaterRecordsIndexed

====
